---- MODULE Spec2Model ----
(***************************************************************************)
(* xundo: the undo/redo engine of source/xundo_system.h (class             *)
(* xundo::system), with the MoveCursor command of the example file as the  *)
(* registered command and fake_dbase as the caller-visible data.           *)
(*                                                                         *)
(* One owner thread calls Init, Execute, Undo, Redo, SaveTimestamps,       *)
(* LoadTimestamps and the destructor; the I/O workers pop jobs from        *)
(* m_IOQueue and run them.  Every job body runs under the entry's mutex    *)
(* (delete_entries touches files only), so a job is one step; a public     *)
(* call is one step, except where it blocks on the workers (the barrier    *)
(* inside LoadTimestamps, the joins of the destructor).                    *)
(***************************************************************************)
EXTENDS Integers, Sequences, FiniteSets, Bags, TLC

(***************************************************************************)
(* Bounds of the model.                                                    *)
(***************************************************************************)
MaxCommands == 3      \* commands one engine session runs (SpecSession)
MaxStoreCommands == 1 \* commands one engine session runs (Spec)
MaxWindowCommands == 4 \* commands one engine session runs (SpecWindow)
MaxEntries == 4       \* history_entry objects alive at once
MaxQueue == 2         \* jobs waiting in m_IOQueue
MaxRunning == 2       \* jobs the workers run at the same time (SpecSession)
MaxStoreRunning == 1  \* jobs the workers run at the same time (Spec, SpecWindow)
MaxClock == 1         \* milliseconds the wall clock advances over a run
MaxSessions == 2      \* engine instances constructed over the same store
MaxSaves == 1         \* SaveTimestamps calls the owner makes over a run
MaxLoads == 1         \* LoadTimestamps calls the owner makes over a run
NumTargets == 2       \* distinct Move targets the caller asks for
\* m_LookAheadSteps and m_MaxCachedSteps are settings (5 and 50 by default);
\* the model runs a small setting that satisfies the assertion of UpdateLRU,
\* m_MaxCachedSteps > m_LookAheadSteps*2+1, so that eviction happens.
m_LookAheadSteps == 1
WindowSlack == 1      \* m_MaxCachedSteps - m_LookAheadSteps*2 - 1
NumLockWorkers == 2   \* workers followed step by step (SpecLocks)
MaxLockCommands == 2  \* commands one engine session runs (SpecLocks)
MaxDiskCommands == 3   \* commands one session runs on a failing disk (SpecDisk)
MaxBarrierCommands == 2  \* commands of a session with fair threads (SpecBarrier)
MaxLockMoves == 2     \* Undo and Redo calls of one run (SpecLocks)

(***************************************************************************)
(* Program constants.                                                      *)
(***************************************************************************)
NumWorkers == 4          \* Init: for (int i = 0; i < 4; ++i) m_IOThread...
TimeStampScale == 1000   \* Execute: milliseconds * 1000 + m_CommandCounter++
m_DefaultUser == 1
Indeterminate == -2      \* an int m_UserID that was never assigned

m_MaxCachedSteps == m_LookAheadSteps * 2 + 1 + WindowSlack

UndoDir == "x64/Undo"
Paths == {"", UndoDir}

(***************************************************************************)
(* Command strings are sequences of space-separated tokens.                *)
(***************************************************************************)
Digits == <<"1", "2", "3", "4", "5", "6", "7", "8", "9">>

\* std::format("{}", n)
Format(n) == Digits[n]

\* getOptionArgAs<int64_t>: the integer a token spells, or -1 for an error
ParseInt(tok) ==
    IF \E n \in DOMAIN Digits : Digits[n] = tok
    THEN CHOOSE n \in DOMAIN Digits : Digits[n] = tok
    ELSE -1

\* MoveCursor::Move builds "Move -T X Y"
MoveString(X, Y) == <<"Move", "-T", Format(X), Format(Y)>>

HelpString == <<"Move", "-h">>
UnknownString == <<"Jump", "-T", "1", "2">>
BadOptionString == <<"Move", "-Q">>
BadArgString == <<"Move", "-T", "a", "2">>

\* what the caller passes to Execute when the cursor is at DB: a Move(k, k+1)
\* to another position by user k (-1, the default user, for k = 1), and one
\* call per way of not recording a command
Moves(DB) ==
    {<<MoveString(k, k + 1), IF k = 1 THEN -1 ELSE k>> :
         k \in {t \in 1..NumTargets : DB # [m_X |-> t, m_Y |-> t + 1]}}

Calls(DB) ==
    Moves(DB) \cup {<<c, -1>> : c \in {HelpString, UnknownString,
                                       BadOptionString, BadArgString}}

\* the registry m_Commands: MoveCursor registers itself as "Move"
m_Commands == {"Move"}

getCommandName(str) == IF str = <<>> THEN "" ELSE Head(str)

\* command_base::Parse: the parser's verdict on the argument tokens
Parse(cmd_str) ==
    LET args == IF cmd_str = <<>> THEN <<>> ELSE Tail(cmd_str)
    IN  IF args = <<>> THEN [err |-> "", opt |-> "", args |-> <<>>]
        ELSE IF args = <<"-h">> THEN [err |-> "", opt |-> "h", args |-> <<>>]
        ELSE IF Len(args) = 3 /\ args[1] = "-T"
             THEN [err |-> "", opt |-> "T", args |-> Tail(args)]
        ELSE [err |-> "parse error", opt |-> "", args |-> <<>>]

\* MoveCursor::Redo on the parsed arguments: the error it returns and the
\* data base it leaves
MoveRedo(parsed, DB) ==
    IF parsed.opt = "T"
    THEN LET x == ParseInt(parsed.args[1])
             y == ParseInt(parsed.args[2])
         IN  IF x = -1 THEN [err |-> "Failed to get parameter X", db |-> DB]
             ELSE IF y = -1 THEN [err |-> "Failed to get parameter Y", db |-> DB]
             ELSE [err |-> "", db |-> [m_X |-> x, m_Y |-> y]]
    ELSE [err |-> "Expecting -T x y but found nothing", db |-> DB]

\* MoveCursor::BackupCurrenState through undo_file::Write: the payload bytes
BackupCurrenState(DB) == <<DB.m_X, DB.m_Y>>

\* MoveCursor::Undo through undo_file::Read
MoveUndo(payload) == [m_X |-> payload[1], m_Y |-> payload[2]]


(***************************************************************************)
(* State.                                                                  *)
(***************************************************************************)
VARIABLES
    m_UndoIndex,       \* int m_UndoIndex
    m_History,         \* vector<shared_ptr<history_entry>>: entry ids
    m_LRU,             \* list<shared_ptr<history_entry>>: entry ids
    entries,           \* the history_entry objects of this session, by id
    m_UndoPath,        \* "" is in-memory mode
    m_bAutoLoadSave,
    m_Done,
    m_CommandCounter,
    m_IOQueue,         \* queue<unique_ptr<job::base>>
    running,           \* bag of the jobs popped by a worker and not yet run
    workers,           \* worker threads started and not yet returned
    DataBase,          \* fake_dbase, the caller-visible data
    files,             \* the store: UndoStep-<timestamp> -> file content
    indexFile,         \* UndoTimestamps.bin: whether it exists, its timestamps
    clock,             \* system_clock::now() in milliseconds, as last read
    pc,                \* where the owner thread is
    session,           \* engine instances constructed so far
    calls,             \* SaveTimestamps and LoadTimestamps calls made so far
    pruned,            \* timestamps truncated by a mid-stack Execute
    held,              \* entries whose m_Mutex the owner thread holds
    removedAtRoot,     \* timestamps T of the calls remove("/UndoStep-T")
    undone,            \* the last public call was an Undo that moved the cursor
    last,              \* the public call that has just returned
    m_Mutex,           \* std::mutex m_Mutex: the threads that hold it
    inside,            \* per worker, the entries whose m_Mutex it holds
    thread,            \* per worker, where it is in IOWorker and its job
    todo,              \* the steps left of the public call in progress
    moves              \* Undo and Redo calls made so far (SpecLocks)

engineVars == <<m_UndoIndex, m_History, m_LRU, entries, m_UndoPath,
                m_bAutoLoadSave, m_Done, m_CommandCounter>>
ioVars == <<m_IOQueue, running, workers, files, indexFile>>
lockVars == <<m_Mutex, inside, thread, todo, moves>>
vars == <<engineVars, ioVars, DataBase, clock, pc, session, calls, pruned,
          held, removedAtRoot, undone, last, lockVars>>

NoFile == [present |-> FALSE, stamps |-> <<>>]
NoCall == [op |-> "none"]
NoData == [m_X |-> 0, m_Y |-> 0]

\* a history_entry as make_shared leaves it; before and after are the data
\* base around the command's first execution (not program state)
NewEntry ==
    [m_UserID |-> Indeterminate, m_TimeStamp |-> 0, m_CommandString |-> <<>>,
     m_CacheUndoData |-> <<>>, m_bHasBeenSaved |-> FALSE,
     loaded |-> FALSE, before |-> NoData, after |-> NoData]

\* the jobs of namespace job
save_to_disk(e) == [kind |-> "save_to_disk", m_Entry |-> e, m_TimeStamps |-> <<>>]
warmup_cache(e) == [kind |-> "warmup_cache", m_Entry |-> e, m_TimeStamps |-> <<>>]
load_entries(e) == [kind |-> "load_entries", m_Entry |-> e, m_TimeStamps |-> <<>>]
delete_entries(ts) == [kind |-> "delete_entries", m_Entry |-> 0, m_TimeStamps |-> ts]

\* std::unique_ptr<job::base> Job of a worker that has popped nothing
NoJob == [kind |-> "none", m_Entry |-> 0, m_TimeStamps |-> <<>>]

Range(s) == {s[i] : i \in DOMAIN s}

\* the entries some shared_ptr refers to: from the history, the window or a job
Live(hist, lru, queue, run) ==
    Range(hist) \cup Range(lru)
        \cup {queue[i].m_Entry : i \in DOMAIN queue}
        \cup {j.m_Entry : j \in BagToSet(run)}

\* shared_ptr: an entry nothing refers to any more is destroyed
Release(ents, hist, lru, queue, run) ==
    [i \in DOMAIN ents |->
        IF i \in Live(hist, lru, queue, run) THEN ents[i] ELSE NewEntry]

\* make_shared<history_entry>(): the first n unused ids, in order
RECURSIVE Fresh(_, _)
Fresh(free, n) ==
    IF n = 0 THEN <<>>
    ELSE LET id == CHOOSE i \in free : \A j \in free : i <= j
         IN  <<id>> \o Fresh(free \ {id}, n - 1)

(***************************************************************************)
(* The store.                                                              *)
(***************************************************************************)
\* save_to_disk::Save: the file of an entry
FileOf(e) ==
    [payload |-> e.m_CacheUndoData, m_UserID |-> e.m_UserID,
     m_TimeStamp |-> e.m_TimeStamp, m_CommandString |-> e.m_CommandString]

WriteFile(fs, ts, content) ==
    [t \in DOMAIN fs \cup {ts} |-> IF t = ts THEN content ELSE fs[t]]

\* std::filesystem::remove of each UndoStep-<timestamp>; a missing file is
\* no error
RemoveFiles(fs, stamps) == [t \in DOMAIN fs \ stamps |-> fs[t]]

\* warmup_cache::Load(Entry, Path, bLoadKeyData, bLoadCacheData)
Load(e, fs, bLoadKeyData, bLoadCacheData) ==
    IF e.m_TimeStamp \notin DOMAIN fs THEN e
    ELSE LET f == fs[e.m_TimeStamp]
             e1 == IF bLoadCacheData
                   THEN [e EXCEPT !.m_CacheUndoData = f.payload] ELSE e
         IN  IF bLoadKeyData
             THEN [e1 EXCEPT !.m_UserID = f.m_UserID,
                             !.m_TimeStamp = f.m_TimeStamp,
                             !.m_CommandString = f.m_CommandString]
             ELSE e1

\* job::save_to_disk::Execute
SaveJob(e, fs) ==
    IF ~e.m_bHasBeenSaved
    THEN [entry |-> [e EXCEPT !.m_bHasBeenSaved = TRUE],
          files |-> WriteFile(fs, e.m_TimeStamp, FileOf(e))]
    ELSE [entry |-> e, files |-> fs]

\* what fopen(..., "wb") leaves before the first byte reaches the disk
EmptyFile == [payload |-> <<>>, m_UserID |-> Indeterminate, m_TimeStamp |-> 0,
              m_CommandString |-> <<>>]

\* the call of save_to_disk::Save that the disk fails, if any: the bytes
\* are small enough to stay in the stream's buffer until fclose, whose
\* result Save does not read
DiskFailures == {"fopen", "fwrite", "fclose"}

\* save_to_disk::Save(Entry, Path) on a disk that answers io
Save(e, fs, io) ==
    CASE io = "fopen" -> [Ok |-> FALSE, files |-> fs]
      [] io = "fwrite" -> [Ok |-> FALSE, files |-> WriteFile(fs, e.m_TimeStamp, EmptyFile)]
      [] io = "fclose" -> [Ok |-> TRUE, files |-> WriteFile(fs, e.m_TimeStamp, EmptyFile)]
      [] OTHER -> [Ok |-> TRUE, files |-> WriteFile(fs, e.m_TimeStamp, FileOf(e))]

\* job::save_to_disk::Execute on a disk that answers io
SaveJobOn(e, fs, io) ==
    IF ~e.m_bHasBeenSaved
    THEN LET r == Save(e, fs, io)
         IN  [entry |-> [e EXCEPT !.m_bHasBeenSaved = r.Ok], files |-> r.files]
    ELSE [entry |-> e, files |-> fs]

\* a warm-up that reads nothing
WarmupNothing(e, fs) == e

\* job::warmup_cache::Execute
WarmupJob(e, fs) ==
    IF e.m_CacheUndoData = <<>> THEN Load(e, fs, FALSE, TRUE) ELSE e

\* job::load_entries::Execute
LoadJob(e, fs) == Load(e, fs, TRUE, FALSE)

(***************************************************************************)
(* system::UpdateLRU                                                       *)
(***************************************************************************)
SizeEstimation == m_MaxCachedSteps - m_LookAheadSteps * 2 - 1

\* an eviction that clears the payload whether the entry is saved or not
RECURSIVE EvictUnsaved(_, _)
EvictUnsaved(lru, ents) ==
    IF Len(lru) > m_MaxCachedSteps - m_LookAheadSteps * 2 - 1
    THEN EvictUnsaved(Tail(lru), [ents EXCEPT ![Head(lru)].m_CacheUndoData = <<>>])
    ELSE [lru |-> lru, entries |-> ents]

\* a window nothing ever leaves
EvictNothing(lru, ents) == [lru |-> lru, entries |-> ents]

\* while (m_LRU.size() > SizeEstimation): the oldest entry leaves the
\* window; its payload is cleared if it has been saved
RECURSIVE Evict(_, _)
Evict(lru, ents) ==
    IF Len(lru) > SizeEstimation
    THEN LET Oldest == Head(lru)
         IN  Evict(Tail(lru),
                   IF ents[Oldest].m_bHasBeenSaved
                   THEN [ents EXCEPT ![Oldest].m_CacheUndoData = <<>>]
                   ELSE ents)
    ELSE [lru |-> lru, entries |-> ents]

\* the index UpdateLRU warms on the redo side at step i
AheadIndex(idx, i) == idx + i

\* for (i = 1; i <= m_LookAheadSteps && m_LRU.size() < m_MaxCachedSteps; ++i)
RECURSIVE WarmAround(_, _, _, _, _, _)
WarmAround(i, hist, idx, ents, lru, queue) ==
    IF i > m_LookAheadSteps \/ Len(lru) >= m_MaxCachedSteps
    THEN [lru |-> lru, queue |-> queue]
    ELSE LET back == idx >= i /\ ents[hist[idx - i + 1]].m_CacheUndoData = <<>>
             lru1 == IF back THEN Append(lru, hist[idx - i + 1]) ELSE lru
             q1 == IF back THEN Append(queue, warmup_cache(hist[idx - i + 1]))
                   ELSE queue
             a == AheadIndex(idx, i)
             ahead == a < Len(hist) /\ ents[hist[a + 1]].m_CacheUndoData = <<>>
             lru2 == IF ahead THEN Append(lru1, hist[a + 1]) ELSE lru1
             q2 == IF ahead THEN Append(q1, warmup_cache(hist[a + 1])) ELSE q1
         IN  WarmAround(i + 1, hist, idx, ents, lru2, q2)

UpdateLRU(hist, idx, ents, lru, queue) ==
    IF hist = <<>> THEN [lru |-> lru, entries |-> ents, queue |-> queue]
    ELSE LET ev == Evict(lru, ents)
             wa == WarmAround(1, hist, idx, ev.entries, ev.lru, queue)
         IN  [lru |-> wa.lru, entries |-> ev.entries, queue |-> wa.queue]

(***************************************************************************)
(* system::PruneHistory                                                    *)
(***************************************************************************)
\* the timestamps of the tail [m_UndoIndex, size)
TailStamps(hist, idx, ents) ==
    [k \in 1..(Len(hist) - idx) |-> ents[hist[idx + k]].m_TimeStamp]

\* a prune that leaves the tail in place
PruneNothing(hist, idx) == hist

\* a prune that keeps the newest entries instead of the oldest
PruneOldest(hist, idx) == SubSeq(hist, Len(hist) - idx + 1, Len(hist))

\* m_History.resize(m_UndoIndex)
PruneHistory(hist, idx) == SubSeq(hist, 1, idx)

\* if (m_UndoPath.empty()) for (auto& TimeStamp : TimeStamps)
\*     std::filesystem::remove(std::format("{}/UndoStep-{}", m_UndoPath, ...))
RemovedAtRoot(removed, stamps) == removed \cup Range(stamps)

\* a timestamp made of the clock alone
TimeStampOfClock(ms, counter) == ms * TimeStampScale

\* the timestamp Execute gives a new entry
TimeStamp(ms, counter) == ms * TimeStampScale + counter

\* an Execute that leaves the cursor where it was
ExecuteIndexStays(idx) == idx

\* m_UndoIndex++ at the end of Execute
ExecuteIndex(idx) == idx + 1


(***************************************************************************)
(* The state after construction: system() = default, an empty store.       *)
(***************************************************************************)
Init ==
    /\ m_UndoIndex = 0
    /\ m_History = <<>>
    /\ m_LRU = <<>>
    /\ entries = [i \in 1..MaxEntries |-> NewEntry]
    /\ m_UndoPath = ""
    /\ m_bAutoLoadSave = FALSE
    /\ m_Done = TRUE
    /\ m_CommandCounter = 0
    /\ m_IOQueue = <<>>
    /\ running = EmptyBag
    /\ workers = 0
    /\ DataBase = NoData
    /\ files = <<>>
    /\ indexFile = NoFile
    /\ clock = 0
    /\ pc = "constructed"
    /\ session = 1
    /\ calls = [SaveTimestamps |-> 0, LoadTimestamps |-> 0]
    /\ pruned = {}
    /\ held = {}
    /\ removedAtRoot = {}
    /\ undone = FALSE
    /\ last = NoCall
    /\ m_Mutex = {}
    /\ inside = [w \in 1..NumLockWorkers |-> {}]
    /\ thread = [w \in 1..NumLockWorkers |-> [at |-> "wait", Job |-> NoJob]]
    /\ todo = <<>>
    /\ moves = 0

\* what a public call leaves in last: its name and the string it returned;
\* Execute, Undo and Redo add the step they took (stage) and the cursor and
\* the history they started from
Call(op, err) == [op |-> op, err |-> err]

\* the timestamps of a history, in order
Stamps(hist, ents) == [k \in 1..Len(hist) |-> ents[hist[k]].m_TimeStamp]

From == [i0 |-> m_UndoIndex, h0 |-> m_History, s0 |-> Stamps(m_History, entries)]

\* (user, timestamp, command string) of the entries of a history, in order
Keys(hist, ents) ==
    [k \in 1..Len(hist) |-> <<ents[hist[k]].m_UserID, ents[hist[k]].m_TimeStamp,
                              ents[hist[k]].m_CommandString>>]

\* no job is queued and every worker is idle
Quiesced == m_IOQueue = <<>> /\ running = EmptyBag

\* what LoadTimestamps keeps in last while it waits at its second barrier:
\* the cursor it started from and, when it was called right after a
\* SaveTimestamps that succeeded on a quiesced engine, the keys of the history
\* at that moment
Loading ==
    LET followsSave == /\ last.op = "SaveTimestamps"
                       /\ last.err = ""
                       /\ last.quiet0
    IN  [op |-> "loading", i0 |-> m_UndoIndex, followsSave |-> followsSave,
         keys0 |-> IF followsSave THEN last.keys0 ELSE <<>>]

\* the payload of every entry
Payloads(ents) == [id \in DOMAIN ents |-> ents[id].m_CacheUndoData]

\* what a call that returns early adds to last: the window, the queue, the
\* data and the payloads it started from
Frame == [lru0 |-> m_LRU, q0 |-> m_IOQueue, db0 |-> DataBase,
          pay0 |-> Payloads(entries)]

\* a unique_lock that is never released
UnlockNever(h, id) == h

\* a unique_lock that locks nothing
LockNothing(h, id) == h

\* std::unique_lock<std::mutex> lock(LastCommand.m_Mutex)
Lock(h, id) == h \cup {id}

\* the unique_lock leaves its scope, by a return or by the closing brace
Unlock(h, id) == h \ {id}

(***************************************************************************)
(* system::LoadTimestamps, up to its second barrier                        *)
(***************************************************************************)
\* a clear that forgets the cursor
ClearedKeepsIndex(idx) == [history |-> <<>>, lru |-> <<>>, index |-> idx]

\* m_History.clear(); m_LRU.clear(); m_UndoIndex = 0;
Cleared(idx) == [history |-> <<>>, lru |-> <<>>, index |-> 0]

\* the placeholders made from the index, and their load_entries jobs
Placeholders(index, ents, free) ==
    LET Count == Len(index)
        ids == Fresh(free, Count)
    IN  [history |-> ids,
         entries |->
             [id \in DOMAIN ents |->
                 IF id \in Range(ids)
                 THEN LET i == CHOOSE k \in 1..Count : ids[k] = id
                      IN  [NewEntry EXCEPT !.m_TimeStamp = index[i].m_TimeStamp,
                                           !.m_bHasBeenSaved = TRUE,
                                           !.loaded = TRUE,
                                           !.before = index[i].before,
                                           !.after = index[i].after]
                 ELSE ents[id]],
         jobs |-> [i \in 1..Count |-> load_entries(ids[i])],
         index |-> Count]

\* the body of LoadTimestamps after the first SynJobQueue has returned
\* (m_IOQueue is empty); op is the public call it runs in
LoadTimestampsBody(op) ==
    LET c == Cleared(m_UndoIndex)
    IN  IF indexFile = NoFile
        THEN /\ m_History' = c.history
             /\ m_LRU' = c.lru
             /\ m_UndoIndex' = c.index
             /\ entries' = Release(entries, c.history, c.lru, m_IOQueue, running)
             /\ pc' = "ready"
             /\ last' = Call(op, "Error: No such file or directory")
             /\ UNCHANGED m_IOQueue
        ELSE LET free == DOMAIN entries \ Live(c.history, c.lru, m_IOQueue, running)
                 p == Placeholders(indexFile.stamps, entries, free)
             IN  /\ Len(indexFile.stamps) <= Cardinality(free)
                 /\ Len(indexFile.stamps) <= MaxQueue
                 /\ m_History' = p.history
                 /\ m_LRU' = c.lru
                 /\ m_UndoIndex' = p.index
                 /\ m_IOQueue' = m_IOQueue \o p.jobs
                 /\ entries' = Release(p.entries, p.history, c.lru, m_IOQueue', running)
                 /\ pc' = "load_barrier"
                 /\ last' = Loading

\* system::Init
InitCall(UndoPath, bAutoLoadSave) ==
    /\ pc = "constructed"
    /\ m_UndoPath' = UndoPath
    /\ m_bAutoLoadSave' = bAutoLoadSave
    /\ m_Done' = FALSE
    /\ undone' = FALSE
    /\ UNCHANGED <<m_CommandCounter, running, files, indexFile, DataBase,
                   clock, lockVars, session, calls, pruned, held, removedAtRoot>>
    /\ IF UndoPath # ""
       THEN /\ workers' = NumWorkers
            /\ IF bAutoLoadSave /\ indexFile # NoFile
               THEN LoadTimestampsBody("Init")
               ELSE /\ pc' = "ready"
                    /\ last' = Call("Init", "")
                    /\ UNCHANGED <<m_UndoIndex, m_History, m_LRU, entries, m_IOQueue>>
       ELSE \* assert( m_bAutoLoadSave == false );
            /\ pc' = IF bAutoLoadSave THEN "aborted" ELSE "ready"
            /\ last' = Call("Init", "")
            /\ UNCHANGED <<workers, m_UndoIndex, m_History, m_LRU, entries, m_IOQueue>>

\* LoadTimestamps called by the owner
LoadTimestamps ==
    /\ pc = "ready"
    /\ m_UndoPath # ""
    /\ m_IOQueue = <<>>      \* SynJobQueue returns
    /\ LoadTimestampsBody("LoadTimestamps")
    /\ undone' = FALSE
    /\ calls.LoadTimestamps < MaxLoads
    /\ calls' = [calls EXCEPT !.LoadTimestamps = @ + 1]
    /\ UNCHANGED <<m_UndoPath, m_bAutoLoadSave, m_Done, m_CommandCounter,
                   running, workers, files, indexFile, DataBase, clock, lockVars,
                   session, pruned, held, removedAtRoot>>

\* a load that caches nothing
CacheNothing(i, idx, hist, ents, lru, queue) == [lru |-> lru, queue |-> queue]

\* for (i = max(0, m_UndoIndex - m_MaxCachedSteps); i < m_UndoIndex; ++i)
RECURSIVE CacheLatest(_, _, _, _, _, _)
CacheLatest(i, idx, hist, ents, lru, queue) ==
    IF i > idx THEN [lru |-> lru, queue |-> queue]
    ELSE CacheLatest(i + 1, idx, hist, ents, Append(lru, hist[i]),
             IF ents[hist[i]].m_CacheUndoData = <<>> /\ ents[hist[i]].m_bHasBeenSaved
             THEN Append(queue, warmup_cache(hist[i])) ELSE queue)

\* the second SynJobQueue returns; LoadTimestamps caches the latest steps
\* and returns
LoadTimestampsReturn ==
    /\ pc = "load_barrier"
    /\ m_IOQueue = <<>>
    /\ LET first == IF m_UndoIndex > m_MaxCachedSteps
                    THEN m_UndoIndex - m_MaxCachedSteps ELSE 0
           r == CacheLatest(first + 1, m_UndoIndex, m_History, entries, m_LRU, m_IOQueue)
       IN  /\ m_LRU' = r.lru
           /\ m_IOQueue' = r.queue
    /\ pc' = "ready"
    /\ last' = Call("LoadTimestamps", "")
                   @@ [i0 |-> last.i0, followsSave |-> last.followsSave,
                       keys0 |-> last.keys0]
    /\ UNCHANGED <<m_UndoIndex, m_History, entries, m_UndoPath, m_bAutoLoadSave,
                   m_Done, m_CommandCounter, running, workers, files, indexFile,
                   DataBase, clock, lockVars, session, calls, pruned, held,
                   removedAtRoot, undone>>
    /\ Len(m_IOQueue') <= MaxQueue


(***************************************************************************)
(* system::Execute                                                         *)
(***************************************************************************)
\* an Execute that ignores what the command's Redo returned
RedoNeverRejected(Err) == FALSE

\* if (auto Err = Cmd.Redo(); !Err.empty()) return Err;
RedoRejected(Err) == Err # ""

\* what Execute(cmd_str) returns and whether it goes on to record an entry
ExecuteOutcome(cmd_str, DB) ==
    IF getCommandName(cmd_str) \notin m_Commands
    THEN [err |-> "Unable find the command", stage |-> "lookup", db |-> DB]
    ELSE LET parsed == Parse(cmd_str)
             redo == MoveRedo(parsed, DB)
         IN  IF parsed.err # "" THEN [err |-> parsed.err, stage |-> "parse", db |-> DB]
             ELSE IF parsed.opt = "h" THEN [err |-> "", stage |-> "help", db |-> DB]
             ELSE IF RedoRejected(redo.err)
                  THEN [err |-> redo.err, stage |-> "redo", db |-> redo.db]
             ELSE [err |-> redo.err, stage |-> "record", db |-> redo.db]

\* now is what system_clock::now() returns to this call, in milliseconds
Execute(cmd_str, UserID, now) ==
    /\ pc = "ready"
    /\ DOMAIN entries \ Live(m_History, m_LRU, m_IOQueue, running) # {}
    /\ LET out == ExecuteOutcome(cmd_str, DataBase)
           id == Fresh(DOMAIN entries \ Live(m_History, m_LRU, m_IOQueue, running), 1)[1]
           Entry == [NewEntry EXCEPT
                        !.m_UserID = IF UserID = -1 THEN m_DefaultUser ELSE UserID,
                        !.m_TimeStamp = TimeStamp(now, m_CommandCounter),
                        !.m_CommandString = cmd_str,
                        !.m_CacheUndoData = BackupCurrenState(DataBase),
                        !.before = DataBase,
                        !.after = out.db]
           stamps == TailStamps(m_History, m_UndoIndex, entries)
           prune == m_UndoIndex < Len(m_History)
           hist == Append(PruneHistory(m_History, m_UndoIndex), id)
           idx == ExecuteIndex(m_UndoIndex)
           ents == [entries EXCEPT ![id] = Entry]
           q1 == IF prune /\ m_UndoPath # ""
                 THEN Append(m_IOQueue, delete_entries(stamps)) ELSE m_IOQueue
           q2 == Append(q1, save_to_disk(id))
           u == UpdateLRU(hist, idx, ents, Append(m_LRU, id), q2)
       IN  /\ last' = Call("Execute", out.err) @@ From @@ [stage |-> out.stage]
                        @@ (IF out.stage = "record" THEN <<>>
                            ELSE [lru0 |-> m_LRU, q0 |-> m_IOQueue])
           /\ DataBase' = out.db
           /\ m_CommandCounter' =
                 IF out.stage \in {"redo", "record"}
                 THEN m_CommandCounter + 1 ELSE m_CommandCounter
           /\ clock' = IF out.stage \in {"redo", "record"} THEN now ELSE clock
           /\ out.stage \notin {"redo", "record"} => now = clock
           /\ IF out.stage = "record"
              THEN /\ m_History' = hist
                   /\ m_UndoIndex' = idx
                   /\ IF m_UndoPath # ""
                      THEN /\ m_LRU' = u.lru
                           /\ m_IOQueue' = u.queue
                           /\ entries' = Release(u.entries, hist, u.lru, u.queue, running)
                           /\ pruned' = IF prune THEN pruned \cup Range(stamps) ELSE pruned
                           /\ UNCHANGED removedAtRoot
                      ELSE \* in-memory mode: PruneHistory calls
                           \* std::filesystem::remove on "/UndoStep-<timestamp>",
                           \* outside the store
                           /\ entries' = Release(ents, hist, m_LRU, m_IOQueue, running)
                           /\ removedAtRoot' = RemovedAtRoot(removedAtRoot, stamps)
                           /\ UNCHANGED <<m_LRU, m_IOQueue, pruned>>
              ELSE UNCHANGED <<m_History, m_UndoIndex, m_LRU, m_IOQueue, entries,
                               pruned, removedAtRoot>>
    /\ undone' = FALSE
    /\ UNCHANGED <<m_UndoPath, m_bAutoLoadSave, m_Done, running, workers,
                   files, indexFile, pc, session, calls, held, lockVars>>
    /\ Len(m_IOQueue') <= MaxQueue

(***************************************************************************)
(* system::Undo                                                            *)
(***************************************************************************)
\* if (m_UndoIndex == 0) return *this;
UndoAtStart(idx) == idx = 0

\* an Undo that decrements the cursor before it looks at it
UndoIndexBlind(idx) == idx - 1

\* the cursor Undo leaves: m_UndoIndex--, past the early return
UndoIndex(idx) == IF UndoAtStart(idx) THEN idx ELSE idx - 1

\* if (LastCommand.m_CacheUndoData.empty()): Undo runs a warm-up itself
ForcedSync(LastCommand) == LastCommand.m_CacheUndoData = <<>>

Undo ==
    /\ pc = "ready"
    /\ IF UndoAtStart(m_UndoIndex)
       THEN /\ last' = Call("Undo", "") @@ From @@ [stage |-> "noop"] @@ Frame
            /\ m_UndoIndex' = UndoIndex(m_UndoIndex)
            /\ undone' = FALSE
            /\ UNCHANGED <<m_History, m_LRU, entries, m_IOQueue, DataBase, pc, held>>
       ELSE LET idx == UndoIndex(m_UndoIndex)
                id == m_History[idx + 1]
                CmdName == getCommandName(entries[id].m_CommandString)
                \* Force a sync if we need to: warmup_cache on this thread
                warm == IF m_UndoPath # "" THEN WarmupJob(entries[id], files)
                        ELSE entries[id]
                ents == [entries EXCEPT ![id] = warm]
                u == UpdateLRU(m_History, idx, ents, Append(m_LRU, id), m_IOQueue)
            IN  /\ m_UndoIndex' = idx
                /\ UNCHANGED m_History
                /\ IF CmdName \notin m_Commands \/ warm.m_CacheUndoData = <<>>
                   THEN \* *m_Commands[""] is a null command_base; a payload
                        \* that is still empty fails the assertion and
                        \* undo_file::Read
                        /\ pc' = "crashed"
                        /\ entries' = ents
                        /\ last' = Call("Undo", "") @@ From
                                    @@ [stage |-> "crash", synced |-> ForcedSync(entries[id])]
                        /\ undone' = FALSE
                        /\ UNCHANGED <<m_LRU, m_IOQueue, DataBase, held>>
                   ELSE /\ DataBase' = MoveUndo(warm.m_CacheUndoData)
                        /\ held' = Unlock(Lock(held, id), id)
                        /\ last' = Call("Undo", "") @@ From
                                    @@ [stage |-> "undo", synced |-> ForcedSync(entries[id])]
                        /\ undone' = TRUE
                        /\ pc' = pc
                        /\ IF m_UndoPath # ""
                           THEN /\ m_LRU' = u.lru
                                /\ m_IOQueue' = u.queue
                                /\ entries' = Release(u.entries, m_History, u.lru,
                                                      u.queue, running)
                           ELSE /\ entries' = ents
                                /\ UNCHANGED <<m_LRU, m_IOQueue>>
    /\ UNCHANGED <<m_UndoPath, m_bAutoLoadSave, m_Done, m_CommandCounter, running,
                   workers, files, indexFile, clock, lockVars, session, calls, pruned,
                   removedAtRoot>>
    /\ Len(m_IOQueue') <= MaxQueue

(***************************************************************************)
(* system::Redo                                                            *)
(***************************************************************************)
\* if (m_UndoIndex >= m_History.size()) return *this;
RedoAtEnd(idx, hist) == idx >= Len(hist)

\* m_UndoIndex++ at the end of Redo
RedoIndex(idx) == idx + 1

\* Cmd.Redo() on re-execution: MoveCursor's Redo, or, when refused, the error
\* of a command whose Redo does not succeed a second time (command_base::Redo
\* is the client's to implement)
CommandRedo(parsed, DB, refused) ==
    IF refused THEN [err |-> "refused", db |-> DB] ELSE MoveRedo(parsed, DB)

RedoWith(refused) ==
    /\ pc = "ready"
    /\ IF RedoAtEnd(m_UndoIndex, m_History)
       THEN /\ last' = Call("Redo", "") @@ From
                                @@ [stage |-> "noop", undone0 |-> undone] @@ Frame
            /\ UNCHANGED <<m_UndoIndex, m_LRU, entries, m_IOQueue, DataBase, pc,
                           held>>
       ELSE LET id == m_History[m_UndoIndex + 1]
                CmdName == getCommandName(entries[id].m_CommandString)
                parsed == Parse(entries[id].m_CommandString)
                redo == CommandRedo(parsed, DataBase, refused)
                u == UpdateLRU(m_History, m_UndoIndex, entries,
                               Append(m_LRU, id), m_IOQueue)
            IN  IF CmdName \notin m_Commands
                THEN /\ pc' = "crashed"
                     /\ last' = Call("Redo", "") @@ From
                                @@ [stage |-> "crash", undone0 |-> undone]
                     /\ UNCHANGED <<m_UndoIndex, m_LRU, entries, m_IOQueue,
                                    DataBase, held>>
                ELSE IF parsed.err # "" \/ redo.err # ""
                THEN \* return *this inside the scope of the lock
                     /\ held' = Unlock(Lock(held, id), id)
                     /\ last' = Call("Redo", "") @@ From
                                @@ [stage |-> "error", undone0 |-> undone,
                                    lru0 |-> m_LRU]
                     /\ UNCHANGED <<m_UndoIndex, m_LRU, entries, m_IOQueue,
                                    DataBase, pc>>
                ELSE /\ DataBase' = redo.db
                     /\ held' = Unlock(Lock(held, id), id)
                     /\ m_UndoIndex' = RedoIndex(m_UndoIndex)
                     /\ last' = Call("Redo", "") @@ From
                                @@ [stage |-> "redo", undone0 |-> undone]
                     /\ pc' = pc
                     /\ IF m_UndoPath # ""
                        THEN /\ m_LRU' = u.lru
                             /\ m_IOQueue' = u.queue
                             /\ entries' = Release(u.entries, m_History, u.lru,
                                                   u.queue, running)
                        ELSE UNCHANGED <<m_LRU, m_IOQueue, entries>>
    /\ undone' = FALSE
    /\ UNCHANGED <<m_History, m_UndoPath, m_bAutoLoadSave, m_Done, m_CommandCounter,
                   running, workers, files, indexFile, clock, lockVars, session, calls, pruned,
                   removedAtRoot>>
    /\ Len(m_IOQueue') <= MaxQueue

\* Redo with the registered MoveCursor
Redo == RedoWith(FALSE)

(***************************************************************************)
(* system::SuggestNext                                                     *)
(***************************************************************************)
Teens == <<"10", "11", "12", "13", "14", "15", "16", "17", "18", "19">>

\* std::format("{}", n) for the sums SuggestNext prints
FormatSum(n) == IF n \in DOMAIN Digits THEN Digits[n] ELSE Teens[n - Len(Digits)]

FallbackString == <<"-Move", "0", "0">>

\* a comparison that takes every user for the caller
OtherUserNever(EntryUser, UserID) == FALSE

\* last.m_UserID != UserID
OtherUser(EntryUser, UserID) == EntryUser # UserID

\* the position of the first token tok of str, 0 for npos
Find(str, tok) ==
    IF \E k \in DOMAIN str : str[k] = tok
    THEN CHOOSE k \in DOMAIN str : str[k] = tok /\ \A j \in 1..(k - 1) : str[j] # tok
    ELSE 0

\* what SuggestNext(UserID) returns; ok is FALSE where an assertion fails or
\* std::stoi throws
SuggestOutcome(idx, hist, ents, UserID) ==
    IF idx = 0 THEN [ret |-> FallbackString, ok |-> TRUE]
    ELSE LET e == ents[hist[idx]]
             str == e.m_CommandString
             pos == Find(str, "-T")
         IN  IF OtherUser(e.m_UserID, UserID) \/ Find(str, "Move") = 0
             THEN [ret |-> FallbackString, ok |-> TRUE]
             ELSE IF pos = 0 \/ Len(str) < pos + 2
                     \/ ParseInt(str[pos + 1]) = -1 \/ ParseInt(str[pos + 2]) = -1
             THEN [ret |-> <<>>, ok |-> FALSE]
             ELSE [ret |-> <<"-Move", "-T", FormatSum(ParseInt(str[pos + 1]) + 10),
                             FormatSum(ParseInt(str[pos + 2]) + 10)>>,
                   ok |-> TRUE]

SuggestNext(UserID) ==
    /\ pc = "ready"
    /\ LET out == SuggestOutcome(m_UndoIndex, m_History, entries, UserID)
       IN  /\ last' = Call("SuggestNext", "") @@ From
                           @@ [ret |-> out.ret, user |-> UserID,
                               lru0 |-> m_LRU, q0 |-> m_IOQueue]
           /\ pc' = IF out.ok THEN pc ELSE "crashed"
    /\ undone' = FALSE
    /\ UNCHANGED <<engineVars, ioVars, DataBase, clock, lockVars, session, calls, pruned,
                   held, removedAtRoot>>

(***************************************************************************)
(* system::SaveTimestamps                                                  *)
(***************************************************************************)
\* an index of the whole history
SavedCountAll(idx, hist) == Len(hist)

\* uint32_t Count = m_UndoIndex
SavedCount(idx, hist) == idx

\* the index: Count timestamps in history order (before and after ride
\* along for the statements about the data base; the program reads neither)
IndexOf(hist, idx, ents) ==
    [present |-> TRUE,
     stamps |-> [i \in 1..SavedCount(idx, hist) |->
                   [m_TimeStamp |-> ents[hist[i]].m_TimeStamp,
                    before |-> ents[hist[i]].before,
                    after |-> ents[hist[i]].after]]]

\* what the destructor keeps in last while it waits for the joins: the jobs
\* that were queued or popped when it set m_Done
Stopping == [op |-> "~system", q0 |-> m_IOQueue, run0 |-> running]

\* fopen_s succeeded or not
SaveTimestamps(opened) ==
    /\ pc = "ready"
    /\ m_UndoPath # ""
    /\ indexFile' = IF opened THEN IndexOf(m_History, m_UndoIndex, entries)
                    ELSE indexFile
    /\ last' = Call("SaveTimestamps",
                    IF opened THEN "" ELSE "Error saving timestamps")
                   @@ [quiet0 |-> Quiesced, keys0 |-> Keys(m_History, entries)]
    /\ undone' = FALSE
    /\ calls.SaveTimestamps < MaxSaves
    /\ calls' = [calls EXCEPT !.SaveTimestamps = @ + 1]
    /\ UNCHANGED <<engineVars, m_IOQueue, running, workers, files, DataBase,
                   clock, lockVars, pc, session, pruned, held, removedAtRoot>>

(***************************************************************************)
(* system::~system, and the next engine instance over the same store       *)
(***************************************************************************)
Destroy(opened) ==
    /\ pc \in {"constructed", "ready"}
    /\ session < MaxSessions
    /\ indexFile' = IF m_UndoPath # "" /\ m_bAutoLoadSave /\ opened
                    THEN IndexOf(m_History, m_UndoIndex, entries)
                    ELSE indexFile
    /\ IF m_Done = FALSE
       THEN /\ m_Done' = TRUE
            /\ pc' = "joining"
            /\ UNCHANGED <<m_UndoIndex, m_History, m_LRU, entries, m_UndoPath,
                           m_bAutoLoadSave, m_CommandCounter, session, calls, pruned>>
       ELSE \* Init was never called: nothing to join
            /\ session' = session + 1
            /\ UNCHANGED <<engineVars, pc, pruned>>
    /\ last' = IF m_Done = FALSE THEN Stopping ELSE NoCall
    /\ undone' = FALSE
    /\ UNCHANGED <<m_IOQueue, running, workers, files, DataBase, clock, lockVars, calls,
                   held, removedAtRoot>>

\* every join has returned; the next system object is constructed
Joined ==
    /\ pc = "joining"
    /\ workers = 0
    /\ m_UndoIndex' = 0
    /\ m_History' = <<>>
    /\ m_LRU' = <<>>
    /\ entries' = [i \in DOMAIN entries |-> NewEntry]
    /\ m_UndoPath' = ""
    /\ m_bAutoLoadSave' = FALSE
    /\ m_Done' = TRUE
    /\ m_CommandCounter' = 0
    /\ pc' = "constructed"
    /\ session' = session + 1
    /\ pruned' = {}
    /\ removedAtRoot' = {}
    /\ last' = NoCall
    /\ UNCHANGED <<ioVars, DataBase, clock, lockVars, calls, held, undone>>

(***************************************************************************)
(* system::IOWorker                                                        *)
(***************************************************************************)
idle == workers - BagCardinality(running)

\* a worker's step ends the moment "the call has just returned"; a call that
\* waits for the workers is still the same call
Waiting == IF pc \in {"load_barrier", "joining"} THEN last ELSE NoCall

\* a worker that takes the job pushed last
Back(queue) == queue[Len(queue)]

\* m_IOQueue.front()
Front(queue) == Head(queue)

\* Job = std::move(m_IOQueue.front()); m_IOQueue.pop();
WorkerPop ==
    /\ m_IOQueue # <<>>
    /\ idle > 0
    /\ BagCardinality(running) < MaxRunning
    /\ running' = running (+) SetToBag({Front(m_IOQueue)})
    /\ m_IOQueue' = Tail(m_IOQueue)
    /\ last' = Waiting
    /\ UNCHANGED <<engineVars, workers, files, indexFile, DataBase, clock, lockVars, pc,
                   session, calls, pruned, held, removedAtRoot, undone>>

\* the entries and the files the body of Job->Execute() leaves
JobEffect(Job) ==
    LET e == Job.m_Entry
    IN  CASE Job.kind = "save_to_disk" ->
                 LET r == SaveJob(entries[e], files)
                 IN  [entries |-> [entries EXCEPT ![e] = r.entry],
                      files |-> r.files]
          [] Job.kind = "warmup_cache" ->
                 [entries |-> [entries EXCEPT ![e] = WarmupJob(entries[e], files)],
                  files |-> files]
          [] Job.kind = "load_entries" ->
                 [entries |-> [entries EXCEPT ![e] = LoadJob(entries[e], files)],
                  files |-> files]
          [] Job.kind = "delete_entries" ->
                 [entries |-> entries,
                  files |-> RemoveFiles(files, Range(Job.m_TimeStamps))]

\* Job->Execute()
WorkerRun(Job) ==
    /\ BagIn(Job, running)
    \* every job but delete_entries locks its entry's m_Mutex
    /\ Job.kind = "delete_entries" \/ Job.m_Entry \notin held
    /\ running' = running (-) SetToBag({Job})
    /\ LET after == JobEffect(Job)
       IN  /\ files' = after.files
           /\ entries' = Release(after.entries, m_History, m_LRU, m_IOQueue, running')
    /\ last' = Waiting
    /\ UNCHANGED <<m_UndoIndex, m_History, m_LRU, m_UndoPath, m_bAutoLoadSave,
                   m_Done, m_CommandCounter, m_IOQueue, workers, indexFile,
                   DataBase, clock, lockVars, pc, session, calls, pruned, held,
                   removedAtRoot, undone>>

\* save_to_disk::Execute while the disk fails one call of Save
WorkerSaveFails(Job, io) ==
    /\ BagIn(Job, running)
    /\ Job.kind = "save_to_disk"
    /\ Job.m_Entry \notin held
    /\ running' = running (-) SetToBag({Job})
    /\ LET r == SaveJobOn(entries[Job.m_Entry], files, io)
       IN  /\ files' = r.files
           /\ entries' = Release([entries EXCEPT ![Job.m_Entry] = r.entry],
                                 m_History, m_LRU, m_IOQueue, running')
    /\ last' = Waiting
    /\ UNCHANGED <<m_UndoIndex, m_History, m_LRU, m_UndoPath, m_bAutoLoadSave,
                   m_Done, m_CommandCounter, m_IOQueue, workers, indexFile,
                   DataBase, clock, lockVars, pc, session, calls, pruned, held,
                   removedAtRoot, undone>>

\* a worker that returns as soon as the done flag is set
MayExitWhenDone(done, queue) == done

\* if (System.m_Done && System.m_IOQueue.empty()) return;
MayExit(done, queue) == done /\ queue = <<>>

WorkerExit ==
    /\ MayExit(m_Done, m_IOQueue)
    /\ idle > 0
    /\ workers' = workers - 1
    /\ last' = Waiting
    /\ UNCHANGED <<engineVars, m_IOQueue, running, files, indexFile, DataBase,
                   clock, lockVars, pc, session, calls, pruned, held, removedAtRoot, undone>>

(***************************************************************************)
(* Spec: the whole engine over its store, every public call, engine        *)
(* instances following one another.                                        *)
(***************************************************************************)
Next ==
    \/ \E UndoPath \in Paths, bAutoLoadSave \in BOOLEAN :
           InitCall(UndoPath, bAutoLoadSave)
    \/ \E call \in Calls(DataBase), now \in clock..MaxClock :
           m_CommandCounter < MaxStoreCommands /\ Execute(call[1], call[2], now)
    \/ Undo
    \/ Redo
    \/ \E opened \in BOOLEAN : SaveTimestamps(opened)
    \/ LoadTimestamps
    \/ LoadTimestampsReturn
    \/ \E opened \in BOOLEAN : Destroy(opened)
    \/ Joined
    \/ BagCardinality(running) < MaxStoreRunning /\ WorkerPop
    \/ \E Job \in BagToSet(running) : WorkerRun(Job)
    \/ WorkerExit

Spec == Init /\ [][Next]_vars

(***************************************************************************)
(* SpecSession: one engine session of Execute, Undo and Redo, in memory or *)
(* over the store, with longer histories.                                  *)
(***************************************************************************)
NextSession ==
    \/ \E UndoPath \in Paths : InitCall(UndoPath, FALSE)
    \/ \E call \in Calls(DataBase), now \in clock..MaxClock :
           m_CommandCounter < MaxCommands /\ Execute(call[1], call[2], now)
    \/ Undo
    \/ Redo
    \/ WorkerPop
    \/ \E Job \in BagToSet(running) : WorkerRun(Job)

SpecSession == Init /\ [][NextSession]_vars

(***************************************************************************)
(* SpecDisk: one engine session over a store whose disk may fail a save.   *)
(***************************************************************************)
NextDisk ==
    \/ InitCall(UndoDir, FALSE)
    \/ \E call \in Moves(DataBase) :
           m_CommandCounter < MaxDiskCommands /\ Execute(call[1], call[2], clock)
    \/ Undo
    \/ Redo
    \/ WorkerPop
    \/ \E Job \in BagToSet(running) : WorkerRun(Job)
    \/ \E Job \in BagToSet(running), io \in DiskFailures : WorkerSaveFails(Job, io)

SpecDisk == Init /\ [][NextDisk]_vars

(***************************************************************************)
(* SpecWindow: one engine session over the store with a history as long as *)
(* the window, within one millisecond, where the client's command may      *)
(* refuse to be redone.                                                    *)
(***************************************************************************)
NextWindow ==
    \/ InitCall(UndoDir, FALSE)
    \/ \E call \in Moves(DataBase) :
           m_CommandCounter < MaxWindowCommands /\ Execute(call[1], call[2], clock)
    \/ Undo
    \/ \E refused \in BOOLEAN : RedoWith(refused)
    \/ \E UserID \in 1..NumTargets : SuggestNext(UserID)
    \/ BagCardinality(running) < MaxStoreRunning /\ WorkerPop
    \/ \E Job \in BagToSet(running) : WorkerRun(Job)

SpecWindow == Init /\ [][NextWindow]_vars

(***************************************************************************)
(* SpecLocks: one session over the store with the owner and the workers    *)
(* followed from one critical section to the next.  A public call is the   *)
(* sequence todo of its steps that touch what a worker can see: the queue  *)
(* under m_Mutex, an entry under its own m_Mutex, an entry's payload read  *)
(* without it.  What only the owner sees (m_History, m_LRU, m_UndoIndex)   *)
(* moves with the nearest such step.  m_History is not empty when Execute, *)
(* Undo or Redo reach UpdateLRU.  SaveTimestamps takes no lock and is the   *)
(* action of the other specifications.                                     *)
(***************************************************************************)
Owner == NumLockWorkers + 1
Threads == 1..Owner

\* one step of a public call: what it does, the entry or the job it is
\* about, the loop index, and whether the owner is inside its critical
\* section
Step(op, e, Job, i) == [op |-> op, e |-> e, Job |-> Job, i |-> i, in |-> FALSE]

\* PushJob(std::make_unique<job::...>(...))
PushJobStep(Job) == Step("PushJob", Job.m_Entry, Job, 0)

\* UpdateLRU(): the eviction loop, then the two tests of every turn of the
\* look-ahead loop
UpdateLRUSteps ==
    <<Step("evict", 0, NoJob, 0)>> \o
        [k \in 1..(2 * m_LookAheadSteps) |->
            Step(IF k % 2 = 1 THEN "back" ELSE "ahead", 0, NoJob, (k + 1) \div 2)]

\* the look-ahead loop ends
AfterLoop(steps) == SelectSeq(steps, LAMBDA s : s.op \notin {"back", "ahead"})

At(op) == todo # <<>> /\ Head(todo).op = op

\* the owner has entered the critical section of its step
Entered == [todo EXCEPT ![1].in = TRUE]

\* the call returns when no step is left
Return(steps) == IF steps = <<>> THEN "ready" ELSE pc

\* a lock_guard on m_Mutex that outlives its scope
ScopeNeverEnds(mx, t) == mx

\* std::lock_guard<std::mutex> lock(m_Mutex), std::unique_lock (m_Mutex)
LockGuard(mx, t) == mx \cup {t}

\* the closing brace of the scope of the lock on m_Mutex
EndOfScope(mx, t) == mx \ {t}

\* no thread holds the m_Mutex of entry e
Available(e) == e \notin held /\ \A w \in DOMAIN inside : e \notin inside[w]

\* a worker is inside warmup_cache::Execute on entry e and Load is filling
\* its payload
Warming(e) ==
    \E w \in DOMAIN thread :
        /\ thread[w].at = "job"
        /\ thread[w].Job = warmup_cache(e)
        /\ entries[e].m_CacheUndoData = <<>>
        /\ entries[e].m_TimeStamp \in DOMAIN files

\* what m_CacheUndoData.empty() returns to the owner, which reads it without
\* the m_Mutex of the entry: while a worker is writing the payload the read
\* is a data race and returns either value
EmptyRead(e) ==
    IF Warming(e) THEN BOOLEAN ELSE {entries[e].m_CacheUndoData = <<>>}

\* Execute of a command that parses and whose Redo succeeds, up to its first
\* PushJob
ExecuteLocks(cmd_str, UserID) ==
    /\ pc = "ready"
    /\ DOMAIN entries \ Live(m_History, m_LRU, m_IOQueue, running) # {}
    /\ LET out == ExecuteOutcome(cmd_str, DataBase)
           id == Fresh(DOMAIN entries \ Live(m_History, m_LRU, m_IOQueue, running), 1)[1]
           Entry == [NewEntry EXCEPT
                        !.m_UserID = IF UserID = -1 THEN m_DefaultUser ELSE UserID,
                        !.m_TimeStamp = TimeStamp(clock, m_CommandCounter),
                        !.m_CommandString = cmd_str,
                        !.m_CacheUndoData = BackupCurrenState(DataBase),
                        !.before = DataBase,
                        !.after = out.db]
           stamps == TailStamps(m_History, m_UndoIndex, entries)
           prune == m_UndoIndex < Len(m_History)
           hist == Append(PruneHistory(m_History, m_UndoIndex), id)
       IN  /\ out.stage = "record"
           /\ DataBase' = out.db
           /\ m_CommandCounter' = m_CommandCounter + 1
           /\ m_History' = hist
           /\ m_UndoIndex' = ExecuteIndex(m_UndoIndex)
           /\ m_LRU' = Append(m_LRU, id)
           /\ entries' = Release([entries EXCEPT ![id] = Entry], hist, m_LRU',
                                 m_IOQueue, running)
           /\ pruned' = IF prune THEN pruned \cup Range(stamps) ELSE pruned
           /\ todo' = (IF prune THEN <<PushJobStep(delete_entries(stamps))>> ELSE <<>>)
                          \o <<PushJobStep(save_to_disk(id))>> \o UpdateLRUSteps
    /\ pc' = "Execute"
    /\ UNCHANGED <<m_UndoPath, m_bAutoLoadSave, m_Done, ioVars, clock, session,
                   calls, held, removedAtRoot, undone, last, m_Mutex, inside,
                   thread, moves>>

\* Undo, up to if (LastCommand.m_CacheUndoData.empty())
UndoLocks ==
    /\ pc = "ready"
    /\ ~UndoAtStart(m_UndoIndex)
    /\ m_UndoIndex' = UndoIndex(m_UndoIndex)
    /\ LET e == m_History[m_UndoIndex]
       IN  todo' = <<Step("empty", e, NoJob, 0), Step("Undo", e, NoJob, 0)>>
                       \o UpdateLRUSteps
    /\ pc' = "Undo"
    /\ UNCHANGED <<m_History, m_LRU, entries, m_UndoPath, m_bAutoLoadSave, m_Done,
                   m_CommandCounter, ioVars, DataBase, clock, session, calls,
                   pruned, held, removedAtRoot, undone, last, m_Mutex, inside,
                   thread>>
    /\ moves' = moves + 1

\* Redo, up to the lock on LastCommand.m_Mutex
RedoLocks ==
    /\ pc = "ready"
    /\ ~RedoAtEnd(m_UndoIndex, m_History)
    /\ LET e == m_History[m_UndoIndex + 1]
       IN  todo' = <<Step("Redo", e, NoJob, 0)>> \o UpdateLRUSteps
                       \o <<Step("advance", 0, NoJob, 0)>>
    /\ pc' = "Redo"
    /\ UNCHANGED <<engineVars, ioVars, DataBase, clock, session, calls, pruned,
                   held, removedAtRoot, undone, last, m_Mutex, inside, thread>>
    /\ moves' = moves + 1

\* what no step of a call in progress changes
callVars == <<m_UndoPath, m_bAutoLoadSave, m_Done, m_CommandCounter, running,
              workers, indexFile, clock, session, calls, pruned, removedAtRoot,
              undone, last, inside, thread, moves>>

\* PushJob: std::lock_guard<std::mutex> lock(m_Mutex)
PushJobLock ==
    /\ At("PushJob")
    /\ ~Head(todo).in
    /\ m_Mutex = {}
    /\ Len(m_IOQueue) < MaxQueue
    /\ m_Mutex' = LockGuard(m_Mutex, Owner)
    /\ todo' = Entered
    /\ UNCHANGED <<m_UndoIndex, m_History, m_LRU, entries, m_IOQueue, files,
                   DataBase, pc, held, callVars>>

\* the workers that sleep inside m_Cond.wait
Asleep(th) == {w \in DOMAIN th : th[w].at = "asleep"}

\* a notify_one that wakes nobody
NotifyNoOne(th) == {th}

\* m_Cond.notify_one(): what the workers can be after it; one of the
\* sleeping workers, if there is one, goes for m_Mutex again
NotifyOne(th) ==
    IF Asleep(th) = {} THEN {th}
    ELSE {[th EXCEPT ![w].at = "wait"] : w \in Asleep(th)}

\* a notify_all that wakes nobody
NotifyNobody(th) == th

\* m_Cond.notify_all()
NotifyAll(th) ==
    [w \in DOMAIN th |-> IF w \in Asleep(th) THEN [th[w] EXCEPT !.at = "wait"]
                                             ELSE th[w]]

\* PushJob: m_IOQueue.push(std::move(Job)); m_Cond.notify_one(); and the
\* end of the scope
PushJobPush ==
    /\ At("PushJob")
    /\ Head(todo).in
    /\ m_IOQueue' = Append(m_IOQueue, Head(todo).Job)
    /\ thread' \in NotifyOne(thread)
    /\ m_Mutex' = EndOfScope(m_Mutex, Owner)
    /\ todo' = Tail(todo)
    /\ pc' = Return(todo')
    /\ UNCHANGED <<m_UndoIndex, m_History, m_LRU, entries, files, DataBase, held,
                   m_UndoPath, m_bAutoLoadSave, m_Done, m_CommandCounter, running,
                   workers, indexFile, clock, session, calls, pruned,
                   removedAtRoot, undone, last, inside, moves>>

\* Undo: if (LastCommand.m_CacheUndoData.empty())
UndoTest ==
    /\ At("empty")
    /\ \E empty \in EmptyRead(Head(todo).e) :
           todo' = IF empty
                   THEN <<Step("sync", Head(todo).e, warmup_cache(Head(todo).e), 0)>>
                            \o Tail(todo)
                   ELSE Tail(todo)
    /\ UNCHANGED <<m_UndoIndex, m_History, m_LRU, entries, m_IOQueue, files,
                   DataBase, pc, held, m_Mutex, callVars>>

\* Undo: Job.Execute() of the warm-up on the owner's thread, its lock
SyncLock ==
    /\ At("sync")
    /\ ~Head(todo).in
    /\ Available(Head(todo).e)
    /\ held' = Lock(held, Head(todo).e)
    /\ todo' = Entered
    /\ UNCHANGED <<m_UndoIndex, m_History, m_LRU, entries, m_IOQueue, files,
                   DataBase, pc, m_Mutex, callVars>>

\* Undo: the body of the warm-up, and the assertion after it
SyncLoad ==
    /\ At("sync")
    /\ Head(todo).in
    /\ LET e == Head(todo).e
           warm == WarmupJob(entries[e], files)
       IN  /\ entries' = [entries EXCEPT ![e] = warm]
           /\ held' = Unlock(held, e)
           /\ IF warm.m_CacheUndoData = <<>>
              THEN pc' = "crashed" /\ todo' = <<>>
              ELSE pc' = pc /\ todo' = Tail(todo)
    /\ UNCHANGED <<m_UndoIndex, m_History, m_LRU, m_IOQueue, files, DataBase,
                   m_Mutex, callVars>>

\* Undo: std::unique_lock<std::mutex> lock(LastCommand.m_Mutex)
UndoLock ==
    /\ At("Undo")
    /\ ~Head(todo).in
    /\ Available(Head(todo).e)
    /\ held' = Lock(held, Head(todo).e)
    /\ todo' = Entered
    /\ UNCHANGED <<m_UndoIndex, m_History, m_LRU, entries, m_IOQueue, files,
                   DataBase, pc, m_Mutex, callVars>>

\* Undo: Cmd.Undo(File), the end of the scope, m_LRU.push_back
UndoRead ==
    /\ At("Undo")
    /\ Head(todo).in
    /\ LET e == Head(todo).e
       IN  /\ held' = Unlock(held, e)
           /\ IF entries[e].m_CacheUndoData = <<>>
              THEN /\ pc' = "crashed"
                   /\ todo' = <<>>
                   /\ UNCHANGED <<DataBase, m_LRU>>
              ELSE /\ DataBase' = MoveUndo(entries[e].m_CacheUndoData)
                   /\ m_LRU' = Append(m_LRU, e)
                   /\ todo' = Tail(todo)
                   /\ pc' = pc
    /\ UNCHANGED <<m_UndoIndex, m_History, entries, m_IOQueue, files, m_Mutex,
                   callVars>>

\* Redo: std::unique_lock<std::mutex> lock(LastCommand.m_Mutex)
RedoLock ==
    /\ At("Redo")
    /\ ~Head(todo).in
    /\ Available(Head(todo).e)
    /\ held' = Lock(held, Head(todo).e)
    /\ todo' = Entered
    /\ UNCHANGED <<m_UndoIndex, m_History, m_LRU, entries, m_IOQueue, files,
                   DataBase, pc, m_Mutex, callVars>>

\* Redo: Cmd.Parse, Cmd.Redo, the end of the scope, m_LRU.push_back
RedoRun ==
    /\ At("Redo")
    /\ Head(todo).in
    /\ LET e == Head(todo).e
           redo == MoveRedo(Parse(entries[e].m_CommandString), DataBase)
       IN  /\ held' = Unlock(held, e)
           /\ IF redo.err # ""
              THEN /\ todo' = <<>>
                   /\ pc' = "ready"
                   /\ UNCHANGED <<DataBase, m_LRU>>
              ELSE /\ DataBase' = redo.db
                   /\ m_LRU' = Append(m_LRU, e)
                   /\ todo' = Tail(todo)
                   /\ pc' = pc
    /\ UNCHANGED <<m_UndoIndex, m_History, entries, m_IOQueue, files, m_Mutex,
                   callVars>>

\* UpdateLRU: while (m_LRU.size() > SizeEstimation) is over
EvictDone ==
    /\ At("evict")
    /\ ~Head(todo).in
    /\ Len(m_LRU) <= SizeEstimation
    /\ todo' = Tail(todo)
    /\ pc' = Return(todo')
    /\ UNCHANGED <<m_UndoIndex, m_History, m_LRU, entries, m_IOQueue, files,
                   DataBase, held, m_Mutex, callVars>>

\* UpdateLRU: std::unique_lock<std::mutex> lock(Oldest->m_Mutex)
EvictLock ==
    /\ At("evict")
    /\ ~Head(todo).in
    /\ Len(m_LRU) > SizeEstimation
    /\ Available(Head(m_LRU))
    /\ held' = Lock(held, Head(m_LRU))
    /\ todo' = Entered
    /\ UNCHANGED <<m_UndoIndex, m_History, m_LRU, entries, m_IOQueue, files,
                   DataBase, pc, m_Mutex, callVars>>

\* UpdateLRU: if (Oldest->m_bHasBeenSaved) Oldest->m_CacheUndoData.clear();
\* lock.unlock(); m_LRU.pop_front();
EvictClear ==
    /\ At("evict")
    /\ Head(todo).in
    /\ LET Oldest == Head(m_LRU)
           ents == IF entries[Oldest].m_bHasBeenSaved
                   THEN [entries EXCEPT ![Oldest].m_CacheUndoData = <<>>]
                   ELSE entries
       IN  /\ held' = Unlock(held, Oldest)
           /\ m_LRU' = Tail(m_LRU)
           /\ entries' = Release(ents, m_History, m_LRU', m_IOQueue, running)
    /\ todo' = [todo EXCEPT ![1].in = FALSE]
    /\ UNCHANGED <<m_UndoIndex, m_History, m_IOQueue, files, DataBase, pc,
                   m_Mutex, callVars>>

\* the test of one side of the look-ahead loop on entry e, in range or not
WarmTest(inRange, e) ==
    /\ IF inRange
       THEN \E empty \in EmptyRead(e) :
                IF empty
                THEN /\ todo' = <<PushJobStep(warmup_cache(e))>> \o Tail(todo)
                     /\ m_LRU' = Append(m_LRU, e)
                ELSE /\ todo' = Tail(todo)
                     /\ UNCHANGED m_LRU
       ELSE /\ todo' = Tail(todo)
            /\ UNCHANGED m_LRU
    /\ pc' = Return(todo')

\* UpdateLRU: i <= m_LookAheadSteps && m_LRU.size() < m_MaxCachedSteps, and
\* if (m_UndoIndex >= i && m_History[m_UndoIndex - i]->m_CacheUndoData.empty())
WarmBack ==
    /\ At("back")
    /\ LET i == Head(todo).i
       IN  IF Len(m_LRU) >= m_MaxCachedSteps
           THEN /\ todo' = AfterLoop(todo)
                /\ pc' = Return(todo')
                /\ UNCHANGED m_LRU
           ELSE WarmTest(m_UndoIndex >= i,
                         IF m_UndoIndex >= i THEN m_History[m_UndoIndex - i + 1] ELSE 0)
    /\ UNCHANGED <<m_UndoIndex, m_History, entries, m_IOQueue, files, DataBase,
                   held, m_Mutex, callVars>>

\* UpdateLRU: if (m_UndoIndex + i < m_History.size()
\*                && m_History[m_UndoIndex + i]->m_CacheUndoData.empty())
WarmAhead ==
    /\ At("ahead")
    /\ LET a == AheadIndex(m_UndoIndex, Head(todo).i)
       IN  WarmTest(a < Len(m_History),
                    IF a < Len(m_History) THEN m_History[a + 1] ELSE 0)
    /\ UNCHANGED <<m_UndoIndex, m_History, entries, m_IOQueue, files, DataBase,
                   held, m_Mutex, callVars>>

\* Redo: m_UndoIndex++
RedoAdvance ==
    /\ At("advance")
    /\ m_UndoIndex' = RedoIndex(m_UndoIndex)
    /\ todo' = Tail(todo)
    /\ pc' = Return(todo')
    /\ UNCHANGED <<m_History, m_LRU, entries, m_IOQueue, files, DataBase, held,
                   m_Mutex, callVars>>

\* LoadTimestamps, up to its first SynJobQueue
LoadTimestampsLocks ==
    /\ pc = "ready"
    /\ calls.LoadTimestamps < MaxLoads
    /\ calls' = [calls EXCEPT !.LoadTimestamps = @ + 1]
    /\ todo' = <<Step("SynJobQueue", 0, NoJob, 0), Step("read", 0, NoJob, 0)>>
    /\ pc' = "LoadTimestamps"
    /\ UNCHANGED <<engineVars, ioVars, DataBase, clock, session, pruned, held,
                   removedAtRoot, undone, last, m_Mutex, inside, thread, moves>>

\* a barrier that takes any queue for an empty one
IsEmptyAlways(queue) == TRUE

\* SynJobQueue: the predicate of wait_for, [this] {return m_IOQueue.empty();}
IsEmpty(queue) == queue = <<>>

\* SynJobQueue: std::unique_lock<std::mutex> Lock(m_Mutex)
SynJobQueueLock ==
    /\ At("SynJobQueue")
    /\ ~Head(todo).in
    /\ m_Mutex = {}
    /\ m_Mutex' = LockGuard(m_Mutex, Owner)
    /\ todo' = Entered
    /\ UNCHANGED <<m_UndoIndex, m_History, m_LRU, entries, m_IOQueue, files,
                   DataBase, pc, held, callVars>>

\* SynJobQueue: m_IOQueue is not empty, wait_for gives m_Mutex up
SynJobQueueWait ==
    /\ At("SynJobQueue")
    /\ Head(todo).in
    /\ ~IsEmpty(m_IOQueue)
    /\ m_Mutex' = EndOfScope(m_Mutex, Owner)
    /\ todo' = [todo EXCEPT ![1].in = FALSE]
    /\ UNCHANGED <<m_UndoIndex, m_History, m_LRU, entries, m_IOQueue, files,
                   DataBase, pc, held, callVars>>

\* SynJobQueue: m_IOQueue is empty, and the end of the scope
SynJobQueueReturn ==
    /\ At("SynJobQueue")
    /\ Head(todo).in
    /\ IsEmpty(m_IOQueue)
    /\ m_Mutex' = EndOfScope(m_Mutex, Owner)
    /\ todo' = Tail(todo)
    /\ UNCHANGED <<m_UndoIndex, m_History, m_LRU, entries, m_IOQueue, files,
                   DataBase, pc, held, callVars>>

\* LoadTimestamps: the three resets and the read of the index, up to the
\* first PushJob
LoadRead ==
    /\ At("read")
    /\ LET c == Cleared(m_UndoIndex)
           free == DOMAIN entries \ Live(c.history, c.lru, m_IOQueue, running)
       IN  IF indexFile = NoFile
           THEN /\ m_History' = c.history
                /\ m_UndoIndex' = c.index
                /\ entries' = Release(entries, c.history, c.lru, m_IOQueue, running)
                /\ todo' = <<>>
                /\ pc' = "ready"
           ELSE LET p == Placeholders(indexFile.stamps, entries, free)
                    first == IF p.index > m_MaxCachedSteps
                             THEN p.index - m_MaxCachedSteps ELSE 0
                IN  /\ Len(indexFile.stamps) <= Cardinality(free)
                    /\ m_History' = p.history
                    /\ m_UndoIndex' = p.index
                    /\ entries' = Release(p.entries, p.history, c.lru, m_IOQueue, running)
                    /\ todo' = [i \in 1..p.index |-> PushJobStep(p.jobs[i])]
                                   \o <<Step("SynJobQueue", 0, NoJob, 0)>>
                                   \o [k \in 1..(p.index - first) |->
                                          Step("latest", p.history[first + k], NoJob, first + k)]
                    /\ pc' = pc
    /\ m_LRU' = Cleared(m_UndoIndex).lru
    /\ UNCHANGED <<m_IOQueue, files, DataBase, held, m_Mutex, callVars>>

\* LoadTimestamps: m_LRU.push_back(m_History[i]); if (m_History[i]->
\* m_CacheUndoData.empty() && m_History[i]->m_bHasBeenSaved)
LatestTest ==
    /\ At("latest")
    /\ m_LRU' = Append(m_LRU, Head(todo).e)
    /\ \E empty \in EmptyRead(Head(todo).e) :
           todo' = IF empty /\ entries[Head(todo).e].m_bHasBeenSaved
                   THEN <<PushJobStep(warmup_cache(Head(todo).e))>> \o Tail(todo)
                   ELSE Tail(todo)
    /\ pc' = Return(todo')
    /\ UNCHANGED <<m_UndoIndex, m_History, entries, m_IOQueue, files, DataBase,
                   held, m_Mutex, callVars>>

\* ~system, up to the lock on m_Mutex
DestroyLocks ==
    /\ pc = "ready"
    /\ m_Done = FALSE
    /\ indexFile' = IF m_UndoPath # "" /\ m_bAutoLoadSave
                    THEN IndexOf(m_History, m_UndoIndex, entries)
                    ELSE indexFile
    /\ todo' = <<Step("m_Done", 0, NoJob, 0), Step("notify_all", 0, NoJob, 0),
                 Step("join", 0, NoJob, 0)>>
    /\ pc' = "~system"
    /\ UNCHANGED <<engineVars, m_IOQueue, running, workers, files, DataBase, clock,
                   session, calls, pruned, held, removedAtRoot, undone, last,
                   m_Mutex, inside, thread, moves>>

\* ~system: std::lock_guard<std::mutex> lock(m_Mutex)
DoneLock ==
    /\ At("m_Done")
    /\ ~Head(todo).in
    /\ m_Mutex = {}
    /\ m_Mutex' = LockGuard(m_Mutex, Owner)
    /\ todo' = Entered
    /\ UNCHANGED <<m_UndoIndex, m_History, m_LRU, entries, m_IOQueue, files,
                   DataBase, pc, held, callVars>>

\* ~system: m_Done = true, and the end of the scope
DoneSet ==
    /\ At("m_Done")
    /\ Head(todo).in
    /\ m_Done' = TRUE
    /\ m_Mutex' = EndOfScope(m_Mutex, Owner)
    /\ todo' = Tail(todo)
    /\ UNCHANGED <<m_UndoIndex, m_History, m_LRU, entries, m_IOQueue, files,
                   DataBase, pc, held, m_UndoPath, m_bAutoLoadSave,
                   m_CommandCounter, running, workers, indexFile, clock, session,
                   calls, pruned, removedAtRoot, undone, last, inside, thread,
                   moves>>

\* ~system: m_Cond.notify_all()
DoneNotify ==
    /\ At("notify_all")
    /\ thread' = NotifyAll(thread)
    /\ todo' = Tail(todo)
    /\ UNCHANGED <<m_UndoIndex, m_History, m_LRU, entries, m_IOQueue, files,
                   DataBase, pc, held, m_Mutex, m_UndoPath, m_bAutoLoadSave, m_Done,
                   m_CommandCounter, running, workers, indexFile, clock, session,
                   calls, pruned, removedAtRoot, undone, last, inside, moves>>

\* ~system: for (auto& E : m_IOThread) E.join(), every worker has returned
JoinAll ==
    /\ At("join")
    /\ \A w \in DOMAIN thread : thread[w].at = "exited"
    /\ todo' = <<>>
    /\ pc' = "joined"
    /\ UNCHANGED <<m_UndoIndex, m_History, m_LRU, entries, m_IOQueue, files,
                   DataBase, held, m_Mutex, callVars>>

\* what no step of a worker changes
ownerVars == <<m_UndoIndex, m_History, m_LRU, m_UndoPath, m_bAutoLoadSave, m_Done,
               m_CommandCounter, workers, indexFile, DataBase, clock, pc,
               session, calls, pruned, held, removedAtRoot, undone, last, todo,
               moves>>

\* IOWorker: the worker, at the top of its loop or notified, locks
\* m_Mutex and m_Cond.wait tests [&System] {return !m_IOQueue.empty() ||
\* m_Done;}: it goes on with m_Mutex locked, or sleeps with m_Mutex released
WorkerWake(w) ==
    /\ workers > 0
    /\ thread[w].at = "wait"
    /\ m_Mutex = {}
    /\ IF m_IOQueue # <<>> \/ m_Done
       THEN /\ m_Mutex' = LockGuard(m_Mutex, w)
            /\ thread' = [thread EXCEPT ![w].at = "locked"]
       ELSE /\ m_Mutex' = m_Mutex
            /\ thread' = [thread EXCEPT ![w].at = "asleep"]
    /\ UNCHANGED <<entries, m_IOQueue, running, files, inside, ownerVars>>

\* IOWorker: m_Cond.wait wakes without a notification
WorkerSpurious(w) ==
    /\ thread[w].at = "asleep"
    /\ thread' = [thread EXCEPT ![w].at = "wait"]
    /\ UNCHANGED <<entries, m_IOQueue, running, files, inside, m_Mutex, ownerVars>>

\* IOWorker: if (System.m_Done && System.m_IOQueue.empty()) return;
WorkerReturn(w) ==
    /\ thread[w].at = "locked"
    /\ MayExit(m_Done, m_IOQueue)
    /\ thread' = [thread EXCEPT ![w].at = "exited"]
    /\ m_Mutex' = EndOfScope(m_Mutex, w)
    /\ UNCHANGED <<entries, m_IOQueue, running, files, inside, ownerVars>>

\* IOWorker: Job = std::move(m_IOQueue.front()); m_IOQueue.pop(); and the
\* end of the scope
WorkerTake(w) ==
    /\ thread[w].at = "locked"
    /\ m_IOQueue # <<>>
    /\ thread' = [thread EXCEPT ![w] = [at |-> "run", Job |-> Front(m_IOQueue)]]
    /\ m_IOQueue' = Tail(m_IOQueue)
    /\ running' = running (+) SetToBag({Front(m_IOQueue)})
    /\ m_Mutex' = EndOfScope(m_Mutex, w)
    /\ UNCHANGED <<entries, files, inside, ownerVars>>

\* the worker's job has run
Finished(w) ==
    /\ thread' = [thread EXCEPT ![w] = [at |-> "wait", Job |-> NoJob]]
    /\ running' = running (-) SetToBag({thread[w].Job})

\* delete_entries::Execute, which locks nothing
WorkerDelete(w) ==
    /\ thread[w].at = "run"
    /\ thread[w].Job.kind = "delete_entries"
    /\ files' = JobEffect(thread[w].Job).files
    /\ Finished(w)
    /\ UNCHANGED <<entries, m_IOQueue, m_Mutex, inside, ownerVars>>

\* std::unique_lock<std::mutex> lock(m_Entry->m_Mutex) of the three other jobs
WorkerEnter(w) ==
    /\ thread[w].at = "run"
    /\ thread[w].Job.kind # "delete_entries"
    /\ Available(thread[w].Job.m_Entry)
    /\ inside' = [inside EXCEPT ![w] = Lock(@, thread[w].Job.m_Entry)]
    /\ thread' = [thread EXCEPT ![w].at = "job"]
    /\ UNCHANGED <<entries, m_IOQueue, running, files, m_Mutex, ownerVars>>

\* the body of the job and the end of its scope
WorkerLeave(w) ==
    /\ thread[w].at = "job"
    /\ Finished(w)
    /\ inside' = [inside EXCEPT ![w] = Unlock(@, thread[w].Job.m_Entry)]
    /\ LET after == JobEffect(thread[w].Job)
       IN  /\ files' = after.files
           /\ entries' = Release(after.entries, m_History, m_LRU, m_IOQueue, running')
    /\ UNCHANGED <<m_IOQueue, m_Mutex, ownerVars>>

NextLocks ==
    \/ InitCall(UndoDir, FALSE)
    \/ \E call \in Moves(DataBase) :
           m_CommandCounter < MaxLockCommands /\ ExecuteLocks(call[1], call[2])
    \/ moves < MaxLockMoves /\ UndoLocks
    \/ moves < MaxLockMoves /\ RedoLocks
    \/ PushJobLock
    \/ PushJobPush
    \/ UndoTest
    \/ SyncLock
    \/ SyncLoad
    \/ UndoLock
    \/ UndoRead
    \/ RedoLock
    \/ RedoRun
    \/ EvictDone
    \/ EvictLock
    \/ EvictClear
    \/ WarmBack
    \/ WarmAhead
    \/ RedoAdvance
    \/ SaveTimestamps(TRUE)
    \/ LoadTimestampsLocks
    \/ SynJobQueueLock
    \/ SynJobQueueWait
    \/ SynJobQueueReturn
    \/ LoadRead
    \/ LatestTest
    \/ \E w \in 1..NumLockWorkers : WorkerWake(w)
    \/ \E w \in 1..NumLockWorkers : WorkerSpurious(w)
    \/ \E w \in 1..NumLockWorkers : WorkerTake(w)
    \/ \E w \in 1..NumLockWorkers : WorkerDelete(w)
    \/ \E w \in 1..NumLockWorkers : WorkerEnter(w)
    \/ \E w \in 1..NumLockWorkers : WorkerLeave(w)

SpecLocks == Init /\ [][NextLocks]_vars

(***************************************************************************)
(* SpecBarrier: a session of Execute, SaveTimestamps, LoadTimestamps and   *)
(* ~system with fair threads.  The owner sleeps in wait_for with m_Mutex released, *)
(* so a worker that needs m_Mutex again and again gets it (strong          *)
(* fairness); every other step of a thread that stays possible is taken.   *)
(***************************************************************************)
NextBarrier ==
    \/ InitCall(UndoDir, FALSE)
    \/ \E call \in Moves(DataBase) :
           m_CommandCounter < MaxBarrierCommands /\ ExecuteLocks(call[1], call[2])
    \/ PushJobLock
    \/ PushJobPush
    \/ EvictDone
    \/ EvictLock
    \/ EvictClear
    \/ WarmBack
    \/ WarmAhead
    \/ SaveTimestamps(TRUE)
    \/ LoadTimestampsLocks
    \/ SynJobQueueLock
    \/ SynJobQueueWait
    \/ SynJobQueueReturn
    \/ LoadRead
    \/ LatestTest
    \/ DestroyLocks
    \/ DoneLock
    \/ DoneSet
    \/ DoneNotify
    \/ JoinAll
    \/ \E w \in 1..NumLockWorkers : WorkerWake(w)
    \/ \E w \in 1..NumLockWorkers : WorkerSpurious(w)
    \/ \E w \in 1..NumLockWorkers : WorkerReturn(w)
    \/ \E w \in 1..NumLockWorkers : WorkerTake(w)
    \/ \E w \in 1..NumLockWorkers : WorkerEnter(w)
    \/ \E w \in 1..NumLockWorkers : WorkerLeave(w)

FairThreads ==
    /\ WF_vars(SynJobQueueLock)
    /\ WF_vars(SynJobQueueWait)
    /\ WF_vars(SynJobQueueReturn)
    /\ WF_vars(DoneLock)
    /\ WF_vars(DoneSet)
    /\ WF_vars(DoneNotify)
    /\ WF_vars(JoinAll)
    /\ \A w \in 1..NumLockWorkers :
           /\ SF_vars(WorkerWake(w))
           /\ WF_vars(WorkerReturn(w))
           /\ WF_vars(WorkerTake(w))
           /\ WF_vars(WorkerEnter(w))
           /\ WF_vars(WorkerLeave(w))

SpecBarrier == Init /\ [][NextBarrier]_vars /\ FairThreads

(***************************************************************************)
(* Properties of the engine.                                               *)
(***************************************************************************)
Executed == last.op = "Execute"
Recorded == Executed /\ last.stage = "record"
Succeeded == Executed /\ last.err = ""
Failed == Executed /\ last.err # ""
MidStack == last.i0 < Len(last.h0)

\* C1: after any sequence of Init, Execute, Undo, Redo, SaveTimestamps and
\* LoadTimestamps, succeeding or failing, in memory or over the store, the
\* cursor satisfies 0 <= undo_index <= history.len().
CursorInRange == 0 <= m_UndoIndex /\ m_UndoIndex <= Len(m_History)

\* a LoadTimestamps that failed after commands had been recorded
CursorInRangeSeen ==
    /\ last.op = "LoadTimestamps"
    /\ last.err # ""
    /\ m_CommandCounter > 0
    /\ m_History = <<>>

\* C2: after any Undo called from (history h, cursor i) with i > 0, the
\* history is still h, the cursor is i-1 and the caller-visible data is what
\* it was immediately before the entry at index i-1 was executed.
UndoRestores ==
    (last.op = "Undo" /\ last.i0 > 0) =>
        /\ last.stage = "undo"
        /\ m_History = last.h0
        /\ m_UndoIndex = last.i0 - 1
        /\ DataBase = entries[m_History[last.i0]].before

\* C3: an Undo immediately followed by a Redo, started at cursor i > 0,
\* returns the cursor to i and leaves the caller-visible data as it was
\* immediately after the entry at index i-1 was executed.
UndoRedoRestores ==
    (last.op = "Redo" /\ last.undone0) =>
        /\ last.stage = "redo"
        /\ m_UndoIndex = last.i0 + 1
        /\ DataBase = entries[m_History[m_UndoIndex]].after

\* C4, as the code has it: after any Execute that recorded a command (it
\* returned no error and the help flag was absent), undo_index ==
\* history.len(), so an immediately following Redo is a no-op.
ExecuteRecordedAtEnd ==
    Recorded =>
        /\ m_UndoIndex = Len(m_History)
        /\ RedoAtEnd(m_UndoIndex, m_History)

\* an Execute recorded a command while redo-available entries remained
ExecuteRecordedAtEndSeen == Recorded /\ MidStack

\* C4, as stated: after any Execute that succeeded, undo_index ==
\* history.len().
ExecuteSucceededAtEnd == Succeeded => m_UndoIndex = Len(m_History)

\* C5, as the code has it: after any Execute that recorded a command from
\* cursor i, history.len() is i + 1; it is greater than the length before
\* exactly when the cursor was at the end of the history.
ExecuteLengthIsCursor ==
    Recorded =>
        /\ Len(m_History) = last.i0 + 1
        /\ Len(m_History) > Len(last.h0) <=> ~MidStack

\* an Execute recorded a command and left the history shorter than it was
ExecuteLengthIsCursorSeen == Recorded /\ Len(m_History) < Len(last.h0)

\* C5, as stated: after any Execute that succeeded, history.len() is
\* strictly greater than it was immediately before, undo_index <
\* history.len() included.
ExecuteSucceededLengthens == Succeeded => Len(m_History) > Len(last.h0)

\* C6, as the code has it: an Execute that recorded a command from (history
\* h, cursor i) with i < len(h) leaves the history h[0..i) followed by the
\* single new entry: the entries below i are the same entries with the same
\* timestamps, every entry at an index >= i is gone, the new entry is none
\* of the old ones.
ExecutePrunesTail ==
    (Recorded /\ MidStack) =>
        /\ Len(m_History) = last.i0 + 1
        /\ SubSeq(m_History, 1, last.i0) = SubSeq(last.h0, 1, last.i0)
        /\ SubSeq(Stamps(m_History, entries), 1, last.i0)
               = SubSeq(last.s0, 1, last.i0)
        /\ m_History[last.i0 + 1] \notin Range(last.h0)
        /\ entries[m_History[last.i0 + 1]].m_TimeStamp \notin Range(last.s0)

\* an Execute pruned a tail and kept a prefix
ExecutePrunesTailSeen == Recorded /\ 0 < last.i0 /\ MidStack

\* C6, as stated: a successful Execute from (history h, cursor i) with
\* i < len(h) produces h[0..i) followed by the single new entry.
ExecuteSucceededPrunesTail ==
    (Succeeded /\ MidStack) =>
        /\ Len(m_History) = last.i0 + 1
        /\ SubSeq(m_History, 1, last.i0) = SubSeq(last.h0, 1, last.i0)
        /\ m_History[last.i0 + 1] \notin Range(last.h0)

\* C7: in persistent mode, once the job queue is empty and every worker is
\* idle, no file UndoStep-<timestamp> exists for a timestamp that a
\* mid-stack Execute truncated from the history.
PrunedFilesAbsent ==
    (m_IOQueue = <<>> /\ running = EmptyBag) =>
        \A ts \in pruned : ts \notin DOMAIN files

\* C8: within one engine session the timestamps of the entries in history
\* are strictly increasing with index after any sequence of Execute, Undo
\* and Redo, the clock standing still between Execute calls included.
TimestampsIncrease ==
    \A k \in 1..(Len(m_History) - 1) :
        entries[m_History[k]].m_TimeStamp < entries[m_History[k + 1]].m_TimeStamp

\* two commands recorded within the same millisecond, then undone and redone
TimestampsIncreaseSeen ==
    /\ last.op = "Redo"
    /\ last.stage = "redo"
    /\ \E k \in 1..(Len(m_History) - 1) :
          entries[m_History[k + 1]].m_TimeStamp
              - entries[m_History[k]].m_TimeStamp < TimeStampScale

\* C9: when a new engine instance has loaded the index and then executes a
\* command, the new entry's timestamp is greater than every timestamp of the
\* loaded history.
NewStampAboveLoaded ==
    (Recorded /\ session > 1) =>
        \A k \in 1..(Len(m_History) - 1) :
            entries[m_History[k]].loaded =>
                entries[m_History[k]].m_TimeStamp
                    < entries[m_History[Len(m_History)]].m_TimeStamp

\* C10: an Execute that fails (unknown command name, parser error, error
\* returned by the command's Redo) returns the error string and leaves
\* history, undo_index, the LRU window and the job queue as they were.
ExecuteFailureKeepsState ==
    /\ (Executed /\ last.stage \in {"lookup", "parse", "redo"}) => last.err # ""
    /\ Failed =>
        /\ last.stage \in {"lookup", "parse", "redo"}
        /\ m_History = last.h0
        /\ m_UndoIndex = last.i0
        /\ m_LRU = last.lru0
        /\ m_IOQueue = last.q0

\* the command's Redo failed over a history, a window and a queue that were
\* not empty
ExecuteFailureKeepsStateSeen ==
    /\ Failed
    /\ last.stage = "redo"
    /\ m_History # <<>>
    /\ m_LRU # <<>>
    /\ m_IOQueue # <<>>

\* C11: Undo called with undo_index == 0 and Redo called with undo_index ==
\* history.len() change nothing: history, undo_index, the caller-visible
\* data, every entry's payload, the LRU window and the job queue are what
\* they were when the call was made.
EndpointsChangeNothing ==
    ((last.op = "Undo" /\ last.i0 = 0)
        \/ (last.op = "Redo" /\ last.i0 = Len(last.h0))) =>
        /\ last.stage = "noop"
        /\ m_History = last.h0
        /\ m_UndoIndex = last.i0
        /\ DataBase = last.db0
        /\ Payloads(entries) = last.pay0
        /\ m_LRU = last.lru0
        /\ m_IOQueue = last.q0

\* Undo was called at the start of a history that has redo-available
\* entries, with entries in the window and jobs in the queue
EndpointsChangeNothingSeen ==
    /\ last.op = "Undo"
    /\ last.i0 = 0
    /\ m_History # <<>>
    /\ m_LRU # <<>>
    /\ m_IOQueue # <<>>

\* C12: when the re-parse or the command's redo fails inside Redo, Redo
\* returns with undo_index, history and the LRU window unchanged and with
\* the entry's mutex released.
RedoFailureKeepsState ==
    (last.op = "Redo" /\ last.stage = "error") =>
        /\ m_UndoIndex = last.i0
        /\ m_History = last.h0
        /\ m_LRU = last.lru0
        /\ m_History[last.i0 + 1] \notin held

\* the command refused to be redone, mid-stack, with entries in the window
RedoFailureKeepsStateSeen ==
    /\ last.op = "Redo"
    /\ last.stage = "error"
    /\ 0 < last.i0
    /\ m_LRU # <<>>

\* the entries of the history whose payload is resident
Resident == {id \in Range(m_History) : entries[id].m_CacheUndoData # <<>>}

PublicCallReturned == last.op \in {"Execute", "Undo", "Redo", "LoadTimestamps"}

\* C13: at the end of every public call (Execute, Undo, Redo,
\* LoadTimestamps), for every speed of the I/O workers, the number of
\* entries whose payload is non-empty is below max_cached_steps.
ResidentBelowMax == PublicCallReturned => Cardinality(Resident) < m_MaxCachedSteps

UnsavedStayResident ==
    \A id \in Range(m_History) :
        ~entries[id].m_bHasBeenSaved => entries[id].m_CacheUndoData # <<>>

\* an entry of the history has left the window before its save job ran
UnsavedStayResidentSeen ==
    /\ m_UndoPath # ""
    /\ \E id \in Range(m_History) :
          /\ ~entries[id].m_bHasBeenSaved
          /\ id \notin Range(m_LRU)

\* C16: SaveTimestamps followed by LoadTimestamps on a quiesced engine,
\* from any history and cursor, yields a history of the same length as before
\* the save and, for every index, the same (user_id, timestamp,
\* command_string).
SaveLoadRoundTrip ==
    (last.op = "LoadTimestamps" /\ last.err = "" /\ last.followsSave) =>
        Keys(m_History, entries) = last.keys0

\* C17: the index written by SaveTimestamps holds count == undo_index
\* followed by exactly the timestamps of the entries at indices
\* [0, undo_index) in history order; no redo-available entry at an index
\* >= undo_index is listed.
IndexListsPrefix ==
    (last.op = "SaveTimestamps" /\ last.err = "") =>
        /\ indexFile.present
        /\ Len(indexFile.stamps) = m_UndoIndex
        /\ \A i \in 1..m_UndoIndex :
              indexFile.stamps[i].m_TimeStamp = entries[m_History[i]].m_TimeStamp

\* an index was written from the middle of a history: entries below the
\* cursor, redo-available entries above it
IndexListsPrefixSeen ==
    /\ last.op = "SaveTimestamps"
    /\ last.err = ""
    /\ 0 < m_UndoIndex
    /\ m_UndoIndex < Len(m_History)

\* C18: SaveTimestamps prunes m_History to m_UndoIndex: after SaveTimestamps
\* returns, history.len() == undo_index and no redo-available entry remains
\* in the history.
SavePrunesHistory ==
    (last.op = "SaveTimestamps" /\ last.err = "") => Len(m_History) = m_UndoIndex

InMemoryTouchesNoFile ==
    (pc = "ready" /\ m_UndoPath = "") =>
        /\ removedAtRoot = {}
        /\ files = <<>>
        /\ m_IOQueue = <<>>
        /\ running = EmptyBag

\* the default arguments of Init: std::string_view UndoPath = {},
\* bool bAutoLoadSave = true
DefaultUndoPath == ""
DefaultAutoLoadSave == TRUE

\* C21: calling Init with no undo path and otherwise default arguments
\* succeeds and yields a pure in-memory engine: it returns the empty string,
\* starts no worker, does no I/O and violates no assertion.
InitDefaultInMemory ==
    (/\ last.op = "Init"
     /\ m_UndoPath = DefaultUndoPath
     /\ m_bAutoLoadSave = DefaultAutoLoadSave) =>
        /\ pc = "ready"
        /\ last.err = ""
        /\ workers = 0
        /\ m_IOQueue = <<>>
        /\ running = EmptyBag

\* a save job the destructor found queued or popped has set the flag of its
\* entry once it has run
Drained(Job) ==
    (Job.kind = "save_to_disk" /\ Job.m_Entry \in Range(m_History)) =>
        entries[Job.m_Entry].m_bHasBeenSaved

\* C22: shutdown drains the queue: a worker exits only when the done flag is
\* set and the queue is empty, so when the destructor returns every job that
\* was enqueued before shutdown (save, delete, warm-up, load) has been popped
\* and executed to completion and the queue is empty.
ShutdownDrains ==
    /\ [][workers' < workers => m_Done /\ m_IOQueue = <<>>]_vars
    /\ []((pc = "joining" /\ workers = 0) =>
            /\ m_IOQueue = <<>>
            /\ running = EmptyBag
            /\ \A Job \in Range(last.q0) \cup BagToSet(last.run0) : Drained(Job))

\* every join has returned after a shutdown that found a job queued and
\* another one popped
ShutdownDrainsSeen ==
    /\ pc = "joining"
    /\ workers = 0
    /\ last.q0 # <<>>
    /\ last.run0 # EmptyBag

\* C23: SuggestNext(user_id) returns "-Move 0 0" whenever no entry is
\* currently applied (empty history or undo_index == 0) or the entry at
\* undo_index-1 belongs to a different user, and it never changes history,
\* undo_index, the LRU window or the job queue.
SuggestFallsBack ==
    last.op = "SuggestNext" =>
        /\ (last.i0 = 0 \/ entries[last.h0[last.i0]].m_UserID # last.user)
               => last.ret = FallbackString
        /\ m_History = last.h0
        /\ m_UndoIndex = last.i0
        /\ m_LRU = last.lru0
        /\ m_IOQueue = last.q0

\* SuggestNext was asked for a user other than the one of the applied entry,
\* with entries in the window and jobs in the queue
SuggestFallsBackSeen ==
    /\ last.op = "SuggestNext"
    /\ last.i0 > 0
    /\ entries[last.h0[last.i0]].m_UserID # last.user
    /\ m_LRU # <<>>
    /\ m_IOQueue # <<>>

\* C26: when the second SynJobQueue barrier inside LoadTimestamps returns,
\* every load_entries job that LoadTimestamps enqueued has finished
\* executing, so when LoadTimestamps returns every history entry has its
\* user_id and command_string loaded and an immediately following Undo
\* resolves a registered command from the entry's command string.
LoadBarrierWaits ==
    (last.op = "LoadTimestamps" /\ last.err = "") =>
        /\ \A Job \in BagToSet(running) : Job.kind # "load_entries"
        /\ \A id \in Range(m_History) :
              /\ entries[id].m_UserID # Indeterminate
              /\ entries[id].m_CommandString # <<>>
        /\ m_UndoIndex > 0 =>
              getCommandName(entries[m_History[m_UndoIndex]].m_CommandString)
                  \in m_Commands

\* C27: in persistent mode with no I/O errors, whenever Undo finds the target
\* entry's payload empty, the warm-up it runs synchronously on the caller's
\* thread leaves the payload non-empty before the command's undo is invoked:
\* the assertion after the synchronous load never fails, for any sequence of
\* Execute, Undo and Redo and any interleaving of save, delete and warm-up
\* jobs.
ForcedSyncLoads ==
    (last.op = "Undo" /\ last.i0 > 0 /\ m_UndoPath # "") =>
        /\ last.stage = "undo"
        /\ last.synced => DataBase = entries[m_History[last.i0]].before

\* Undo found the payload of its entry empty, a warm-up job for that entry
\* still queued, and loaded it itself
ForcedSyncLoadsSeen ==
    /\ last.op = "Undo"
    /\ last.stage = "undo"
    /\ last.synced
    /\ warmup_cache(m_History[last.i0]) \in Range(m_IOQueue)

\* the call that has just returned ran UpdateLRU
RanUpdateLRU ==
    /\ m_UndoPath # ""
    /\ \/ Recorded
       \/ last.op = "Undo" /\ last.stage = "undo"
       \/ last.op = "Redo" /\ last.stage = "redo"

\* m_UndoIndex as UpdateLRU saw it: Redo increments it after UpdateLRU
IndexSeenByUpdateLRU == IF last.op = "Redo" THEN m_UndoIndex - 1 ELSE m_UndoIndex

\* C29: when UpdateLRU returns, for every i in 1..look_ahead_steps, each
\* in-range entry at index undo_index - i and each in-range entry at index
\* undo_index + i - 1 whose payload was empty has had a warm-up job scheduled
\* and has been added to the LRU window.
WarmsAroundCursor ==
    RanUpdateLRU =>
        \A i \in 1..m_LookAheadSteps :
            \A k \in {IndexSeenByUpdateLRU - i, IndexSeenByUpdateLRU + i - 1} :
                (/\ 0 <= k
                 /\ k < Len(m_History)
                 /\ entries[m_History[k + 1]].m_CacheUndoData = <<>>) =>
                    /\ warmup_cache(m_History[k + 1]) \in Range(m_IOQueue)
                    /\ m_History[k + 1] \in Range(m_LRU)

\* the owner pushes jobs at the back of the queue
Enqueued ==
    /\ Len(m_IOQueue') >= Len(m_IOQueue)
    /\ SubSeq(m_IOQueue', 1, Len(m_IOQueue)) = m_IOQueue
    /\ running' = running

\* one worker takes the job at the front
Popped ==
    /\ m_IOQueue # <<>>
    /\ m_IOQueue' = Tail(m_IOQueue)
    /\ running' = running (+) SetToBag({Head(m_IOQueue)})

\* one popped job has run
RanOnce ==
    /\ m_IOQueue' = m_IOQueue
    /\ \E Job \in BagToSet(running) : running' = running (-) SetToBag({Job})

\* the save jobs in the queue are in the order of their entries' timestamps
SavesInOrder ==
    \A i, j \in DOMAIN m_IOQueue :
        (/\ i < j
         /\ m_IOQueue[i].kind = "save_to_disk"
         /\ m_IOQueue[j].kind = "save_to_disk") =>
            entries[m_IOQueue[i].m_Entry].m_TimeStamp
                < entries[m_IOQueue[j].m_Entry].m_TimeStamp

\* C30: jobs leave the queue in the order they were enqueued and each
\* enqueued job is popped by exactly one worker and executed exactly once; in
\* particular save jobs enqueued in timeline order are popped in that order,
\* though their executions may overlap on different workers.
QueueIsFifo ==
    /\ [][Enqueued \/ Popped \/ RanOnce]_vars
    /\ []SavesInOrder

\* two save jobs have been popped, the older first, and neither has run: the
\* two executions overlap
QueueIsFifoSeen ==
    \E a, b \in BagToSet(running) :
        /\ a.kind = "save_to_disk"
        /\ b.kind = "save_to_disk"
        /\ a # b

\* the entry mutexes thread t holds
EntriesHeldBy(t) == IF t = Owner THEN held ELSE inside[t]

\* C24: no thread, owner or worker, holds the engine's m_Mutex and the
\* m_Mutex of an entry at the same time, in Execute, Undo, Redo, UpdateLRU,
\* PushJob, the worker loop and the four kinds of job.
NoNestedLocks ==
    \A t \in Threads : ~(t \in m_Mutex /\ EntriesHeldBy(t) # {})

\* a worker holds the engine's m_Mutex while the owner holds the m_Mutex of
\* one entry and another worker that of a second entry
NoNestedLocksSeen ==
    /\ held # {}
    /\ \E w, v \in 1..NumLockWorkers :
           w \in m_Mutex /\ inside[v] # {} /\ inside[v] # held

\* the owner's next step reads the payload of entry e without its m_Mutex
OwnerReads(e) ==
    \/ At("empty") /\ Head(todo).e = e
    \/ /\ At("back")
       /\ Len(m_LRU) < m_MaxCachedSteps
       /\ m_UndoIndex >= Head(todo).i
       /\ m_History[m_UndoIndex - Head(todo).i + 1] = e
    \/ /\ At("ahead")
       /\ AheadIndex(m_UndoIndex, Head(todo).i) < Len(m_History)
       /\ m_History[AheadIndex(m_UndoIndex, Head(todo).i) + 1] = e
    \/ At("latest") /\ Head(todo).e = e

\* C25: the owner never reads the payload of an entry while a worker that
\* holds the entry's m_Mutex is modifying it.
PayloadGuarded ==
    \A e \in DOMAIN entries : ~(OwnerReads(e) /\ Warming(e))

\* worker w is inside the critical section of a job on entry e
InJob(w, e) == thread[w].at = "job" /\ thread[w].Job.m_Entry = e

\* C28: while the command's undo reads the payload inside Undo, no save,
\* warm-up or load job is inside its critical section on the same entry.
UndoExcludesJobs ==
    (At("Undo") /\ Head(todo).in) =>
        \A w \in 1..NumLockWorkers : ~InJob(w, Head(todo).e)

\* the command's undo is reading the payload while a worker that has popped
\* a job on the same entry has not entered its critical section
UndoExcludesJobsSeen ==
    /\ At("Undo")
    /\ Head(todo).in
    /\ \E w \in 1..NumLockWorkers :
           thread[w].at = "run" /\ thread[w].Job.m_Entry = Head(todo).e

\* entry id is referenced before and after the step
Stays(id) ==
    /\ id \in Live(m_History, m_LRU, m_IOQueue, running)
    /\ id \in Live(m_History', m_LRU', m_IOQueue', running')

\* a step writes a file only for an entry that is not yet persisted
WritesOnlyUnsaved ==
    \A ts \in DOMAIN files' :
        (ts \notin DOMAIN files \/ files'[ts] # files[ts]) =>
            \E id \in DOMAIN entries \cap Live(m_History, m_LRU, m_IOQueue, running) :
                entries[id].m_TimeStamp = ts /\ ~entries[id].m_bHasBeenSaved

\* m_bHasBeenSaved of an entry never goes from true back to false
StaysSaved ==
    \A id \in DOMAIN entries :
        (Stays(id) /\ entries[id].m_bHasBeenSaved) => entries'[id].m_bHasBeenSaved

\* a step that sets m_bHasBeenSaved leaves the entry's file complete
SavedMeansWritten ==
    \A id \in DOMAIN entries :
        (Stays(id) /\ ~entries[id].m_bHasBeenSaved /\ entries'[id].m_bHasBeenSaved) =>
            /\ entries[id].m_TimeStamp \in DOMAIN files'
            /\ files'[entries[id].m_TimeStamp] = FileOf(entries[id])

\* C33: a save job writes the file only of an entry that is not yet
\* persisted, sets m_bHasBeenSaved only after a successful write of the whole
\* file, and m_bHasBeenSaved never goes from true back to false.
SaveIsHonest == [][WritesOnlyUnsaved /\ StaysSaved /\ SavedMeansWritten]_vars

\* the delete jobs that wait in the queue or that a worker has popped
DeleteJobs ==
    {Job \in Range(m_IOQueue) \cup BagToSet(running) : Job.kind = "delete_entries"}

\* C34: within one engine session a delete job carries only timestamps of
\* pruned entries, none of them the timestamp of an entry that is in the
\* history while the job waits or runs.
DeleteSparesHistory ==
    \A Job \in DeleteJobs :
        /\ Range(Job.m_TimeStamps) \subseteq pruned
        /\ Range(Job.m_TimeStamps) \cap Range(Stamps(m_History, entries)) = {}

\* a step in which SynJobQueue returns to its caller
BarrierReturn == At("SynJobQueue") /\ todo' = Tail(todo)

\* C31: SynJobQueue, called in persistent mode while the workers run, returns
\* only in a state where m_IOQueue is empty, and with fair threads it always
\* returns.
BarrierWaits ==
    /\ [][BarrierReturn => m_IOQueue' = <<>>]_vars
    /\ (At("SynJobQueue") ~> ~At("SynJobQueue"))

\* the owner is inside SynJobQueue with m_Mutex locked, the workers run and
\* m_IOQueue is not empty: it has to wait
BarrierWaitsSeen ==
    /\ At("SynJobQueue")
    /\ Head(todo).in
    /\ workers > 0
    /\ m_IOQueue # <<>>

\* every followed worker has returned from IOWorker
AllExited == \A w \in 1..NumLockWorkers : thread[w].at = "exited"

\* C32: after ~system has set m_Done and notified the workers, every worker
\* returns, whether it slept in m_Cond.wait or ran a job, so the joins
\* complete and ~system ends, given fair threads and jobs that end.
ShutdownEnds ==
    /\ ((pc = "~system" /\ m_Done) ~> AllExited)
    /\ (pc = "~system" ~> pc = "joined")

\* ~system is about to notify while one worker sleeps in m_Cond.wait and
\* another has popped a job
ShutdownEndsSeen ==
    /\ At("notify_all")
    /\ m_Done
    /\ Asleep(thread) # {}
    /\ \E w \in 1..NumLockWorkers : thread[w].at \in {"run", "job"}

\* a step of the owner inside a public call
OwnerStep ==
    \/ PushJobLock \/ PushJobPush
    \/ UndoTest \/ SyncLock \/ SyncLoad \/ UndoLock \/ UndoRead
    \/ RedoLock \/ RedoRun \/ RedoAdvance
    \/ EvictDone \/ EvictLock \/ EvictClear \/ WarmBack \/ WarmAhead
    \/ SynJobQueueLock \/ SynJobQueueWait \/ SynJobQueueReturn
    \/ LoadRead \/ LatestTest

\* a step of a worker other than a wake-up nobody asked for
WorkerStep ==
    \E w \in 1..NumLockWorkers :
        \/ WorkerWake(w) \/ WorkerTake(w) \/ WorkerDelete(w)
        \/ WorkerEnter(w) \/ WorkerLeave(w)

\* C35: the engine never deadlocks; while a job is in the queue or a public
\* call is unfinished, the owner or a worker is not blocked on m_Mutex, on
\* an entry's m_Mutex or on m_Cond.
NeverStuck ==
    (m_IOQueue # <<>> \/ todo # <<>>) => ENABLED (OwnerStep \/ WorkerStep)

\* the owner waits for m_Mutex, which a worker holds, while the other
\* worker waits for the m_Mutex of an entry or sleeps in m_Cond.wait
NeverStuckSeen ==
    /\ At("PushJob")
    /\ ~Head(todo).in
    /\ \E w, v \in 1..NumLockWorkers :
           /\ w \in m_Mutex
           /\ thread[v].at \in {"job", "asleep"}

====
